---- MODULE Spec2Model ----
(***************************************************************************)
(* Simpler Vulkan Synchronization (thsvs_simpler_vulkan_synchronization.h, *)
(* version alpha.4): the access-type registry ThsvsAccessMap and the three *)
(* barrier resolvers thsvsGetVulkanMemoryBarrier,                          *)
(* thsvsGetVulkanBufferMemoryBarrier and thsvsGetVulkanImageMemoryBarrier. *)
(*                                                                         *)
(* A behaviour is a caller that owns one barrier description and one set   *)
(* of output storage (the two stage words and the native barrier record)   *)
(* and calls the matching resolver on them, any number of times.           *)
(***************************************************************************)
EXTENDS Integers, Sequences, FiniteSets, TLC

\* enum ThsvsAccessType (ordinals in declaration order)
THSVS_ACCESS_NONE == 0
THSVS_ACCESS_COMMAND_BUFFER_READ_NVX == 1
THSVS_ACCESS_INDIRECT_BUFFER == 2
THSVS_ACCESS_INDEX_BUFFER == 3
THSVS_ACCESS_VERTEX_BUFFER == 4
THSVS_ACCESS_VERTEX_SHADER_READ_UNIFORM_BUFFER == 5
THSVS_ACCESS_VERTEX_SHADER_READ_SAMPLED_IMAGE_OR_UNIFORM_TEXEL_BUFFER == 6
THSVS_ACCESS_VERTEX_SHADER_READ_OTHER == 7
THSVS_ACCESS_TESSELLATION_CONTROL_SHADER_READ_UNIFORM_BUFFER == 8
THSVS_ACCESS_TESSELLATION_CONTROL_SHADER_READ_SAMPLED_IMAGE_OR_UNIFORM_TEXEL_BUFFER == 9
THSVS_ACCESS_TESSELLATION_CONTROL_SHADER_READ_OTHER == 10
THSVS_ACCESS_TESSELLATION_EVALUATION_SHADER_READ_UNIFORM_BUFFER == 11
THSVS_ACCESS_TESSELLATION_EVALUATION_SHADER_READ_SAMPLED_IMAGE_OR_UNIFORM_TEXEL_BUFFER == 12
THSVS_ACCESS_TESSELLATION_EVALUATION_SHADER_READ_OTHER == 13
THSVS_ACCESS_GEOMETRY_SHADER_READ_UNIFORM_BUFFER == 14
THSVS_ACCESS_GEOMETRY_SHADER_READ_SAMPLED_IMAGE_OR_UNIFORM_TEXEL_BUFFER == 15
THSVS_ACCESS_GEOMETRY_SHADER_READ_OTHER == 16
THSVS_ACCESS_FRAGMENT_SHADER_READ_UNIFORM_BUFFER == 17
THSVS_ACCESS_FRAGMENT_SHADER_READ_SAMPLED_IMAGE_OR_UNIFORM_TEXEL_BUFFER == 18
THSVS_ACCESS_FRAGMENT_SHADER_READ_COLOR_INPUT_ATTACHMENT == 19
THSVS_ACCESS_FRAGMENT_SHADER_READ_DEPTH_STENCIL_INPUT_ATTACHMENT == 20
THSVS_ACCESS_FRAGMENT_SHADER_READ_OTHER == 21
THSVS_ACCESS_COLOR_ATTACHMENT_READ == 22
THSVS_ACCESS_DEPTH_STENCIL_ATTACHMENT_READ == 23
THSVS_ACCESS_COMPUTE_SHADER_READ_UNIFORM_BUFFER == 24
THSVS_ACCESS_COMPUTE_SHADER_READ_SAMPLED_IMAGE_OR_UNIFORM_TEXEL_BUFFER == 25
THSVS_ACCESS_COMPUTE_SHADER_READ_OTHER == 26
THSVS_ACCESS_ANY_SHADER_READ_UNIFORM_BUFFER == 27
THSVS_ACCESS_ANY_SHADER_READ_UNIFORM_BUFFER_OR_VERTEX_BUFFER == 28
THSVS_ACCESS_ANY_SHADER_READ_SAMPLED_IMAGE_OR_UNIFORM_TEXEL_BUFFER == 29
THSVS_ACCESS_ANY_SHADER_READ_OTHER == 30
THSVS_ACCESS_TRANSFER_READ == 31
THSVS_ACCESS_HOST_READ == 32
THSVS_ACCESS_PRESENT == 33
THSVS_ACCESS_COMMAND_BUFFER_WRITE_NVX == 34
THSVS_ACCESS_VERTEX_SHADER_WRITE == 35
THSVS_ACCESS_TESSELLATION_CONTROL_SHADER_WRITE == 36
THSVS_ACCESS_TESSELLATION_EVALUATION_SHADER_WRITE == 37
THSVS_ACCESS_GEOMETRY_SHADER_WRITE == 38
THSVS_ACCESS_FRAGMENT_SHADER_WRITE == 39
THSVS_ACCESS_COLOR_ATTACHMENT_WRITE == 40
THSVS_ACCESS_DEPTH_STENCIL_ATTACHMENT_WRITE == 41
THSVS_ACCESS_DEPTH_ATTACHMENT_WRITE_STENCIL_READ_ONLY == 42
THSVS_ACCESS_STENCIL_ATTACHMENT_WRITE_DEPTH_READ_ONLY == 43
THSVS_ACCESS_COMPUTE_SHADER_WRITE == 44
THSVS_ACCESS_ANY_SHADER_WRITE == 45
THSVS_ACCESS_TRANSFER_WRITE == 46
THSVS_ACCESS_HOST_WRITE == 47
THSVS_ACCESS_COLOR_ATTACHMENT_READ_WRITE == 48
THSVS_ACCESS_GENERAL == 49
THSVS_NUM_ACCESS_TYPES == 50

\* enum ThsvsImageLayout
THSVS_IMAGE_LAYOUT_OPTIMAL == 0
THSVS_IMAGE_LAYOUT_GENERAL == 1
THSVS_IMAGE_LAYOUT_GENERAL_AND_PRESENTATION == 2

\* VkPipelineStageFlagBits, values of vulkan.h
VK_PIPELINE_STAGE_TOP_OF_PIPE_BIT == 1
VK_PIPELINE_STAGE_DRAW_INDIRECT_BIT == 2
VK_PIPELINE_STAGE_VERTEX_INPUT_BIT == 4
VK_PIPELINE_STAGE_VERTEX_SHADER_BIT == 8
VK_PIPELINE_STAGE_TESSELLATION_CONTROL_SHADER_BIT == 16
VK_PIPELINE_STAGE_TESSELLATION_EVALUATION_SHADER_BIT == 32
VK_PIPELINE_STAGE_GEOMETRY_SHADER_BIT == 64
VK_PIPELINE_STAGE_FRAGMENT_SHADER_BIT == 128
VK_PIPELINE_STAGE_EARLY_FRAGMENT_TESTS_BIT == 256
VK_PIPELINE_STAGE_LATE_FRAGMENT_TESTS_BIT == 512
VK_PIPELINE_STAGE_COLOR_ATTACHMENT_OUTPUT_BIT == 1024
VK_PIPELINE_STAGE_COMPUTE_SHADER_BIT == 2048
VK_PIPELINE_STAGE_TRANSFER_BIT == 4096
VK_PIPELINE_STAGE_BOTTOM_OF_PIPE_BIT == 8192
VK_PIPELINE_STAGE_HOST_BIT == 16384
VK_PIPELINE_STAGE_ALL_COMMANDS_BIT == 65536
VK_PIPELINE_STAGE_COMMAND_PROCESS_BIT_NVX == 131072

\* VkAccessFlagBits, values of vulkan.h; the header spells the two memory
\* bits VK_ACCESS_TYPE_MEMORY_*_BIT, the tests VK_ACCESS_MEMORY_*_BIT
VK_ACCESS_INDIRECT_COMMAND_READ_BIT == 1
VK_ACCESS_INDEX_READ_BIT == 2
VK_ACCESS_VERTEX_ATTRIBUTE_READ_BIT == 4
VK_ACCESS_UNIFORM_READ_BIT == 8
VK_ACCESS_INPUT_ATTACHMENT_READ_BIT == 16
VK_ACCESS_SHADER_READ_BIT == 32
VK_ACCESS_SHADER_WRITE_BIT == 64
VK_ACCESS_COLOR_ATTACHMENT_READ_BIT == 128
VK_ACCESS_COLOR_ATTACHMENT_WRITE_BIT == 256
VK_ACCESS_DEPTH_STENCIL_ATTACHMENT_READ_BIT == 512
VK_ACCESS_DEPTH_STENCIL_ATTACHMENT_WRITE_BIT == 1024
VK_ACCESS_TRANSFER_READ_BIT == 2048
VK_ACCESS_TRANSFER_WRITE_BIT == 4096
VK_ACCESS_HOST_READ_BIT == 8192
VK_ACCESS_HOST_WRITE_BIT == 16384
VK_ACCESS_TYPE_MEMORY_READ_BIT == 32768
VK_ACCESS_TYPE_MEMORY_WRITE_BIT == 65536
VK_ACCESS_COMMAND_PROCESS_READ_BIT_NVX == 131072
VK_ACCESS_COMMAND_PROCESS_WRITE_BIT_NVX == 262144

\* VkImageLayout, values of vulkan.h
VK_IMAGE_LAYOUT_UNDEFINED == 0
VK_IMAGE_LAYOUT_GENERAL == 1
VK_IMAGE_LAYOUT_COLOR_ATTACHMENT_OPTIMAL == 2
VK_IMAGE_LAYOUT_DEPTH_STENCIL_ATTACHMENT_OPTIMAL == 3
VK_IMAGE_LAYOUT_DEPTH_STENCIL_READ_ONLY_OPTIMAL == 4
VK_IMAGE_LAYOUT_SHADER_READ_ONLY_OPTIMAL == 5
VK_IMAGE_LAYOUT_TRANSFER_SRC_OPTIMAL == 6
VK_IMAGE_LAYOUT_TRANSFER_DST_OPTIMAL == 7
VK_IMAGE_LAYOUT_PRESENT_SRC_KHR == 1000001002
VK_IMAGE_LAYOUT_SHARED_PRESENT_KHR == 1000111000
VK_IMAGE_LAYOUT_DEPTH_READ_ONLY_STENCIL_ATTACHMENT_OPTIMAL_KHR == 1000117000
VK_IMAGE_LAYOUT_DEPTH_ATTACHMENT_STENCIL_READ_ONLY_OPTIMAL_KHR == 1000117001

\* VkStructureType, VkBool32 and NULL
VK_STRUCTURE_TYPE_MEMORY_BARRIER == 46
VK_STRUCTURE_TYPE_BUFFER_MEMORY_BARRIER == 44
VK_STRUCTURE_TYPE_IMAGE_MEMORY_BARRIER == 45
VK_FALSE == 0
VK_TRUE == 1
NULL == 0

\* The C operators | and |= on two unsigned flag words
RECURSIVE BitOr(_, _)
BitOr(x, y) ==
    IF x = 0 THEN y
    ELSE IF y = 0 THEN x
    ELSE (IF x % 2 = 1 \/ y % 2 = 1 THEN 1 ELSE 0) + 2 * BitOr(x \div 2, y \div 2)

\* const ThsvsVkAccessInfo ThsvsAccessMap[THSVS_NUM_ACCESS_TYPES]: one row per
\* initializer, in the order of the source; row k (from 1) is the C element k-1
ThsvsAccessMap == <<
    \* [0] THSVS_ACCESS_NONE
    [stageMask   |-> 0,
     accessMask  |-> 0,
     imageLayout |-> VK_IMAGE_LAYOUT_UNDEFINED],
    \* [1] THSVS_ACCESS_COMMAND_BUFFER_READ_NVX
    [stageMask   |-> VK_PIPELINE_STAGE_COMMAND_PROCESS_BIT_NVX,
     accessMask  |-> VK_ACCESS_COMMAND_PROCESS_READ_BIT_NVX,
     imageLayout |-> VK_IMAGE_LAYOUT_UNDEFINED],
    \* [2] THSVS_ACCESS_INDIRECT_BUFFER
    [stageMask   |-> VK_PIPELINE_STAGE_DRAW_INDIRECT_BIT,
     accessMask  |-> VK_ACCESS_INDIRECT_COMMAND_READ_BIT,
     imageLayout |-> VK_IMAGE_LAYOUT_UNDEFINED],
    \* [3] THSVS_ACCESS_INDEX_BUFFER
    [stageMask   |-> VK_PIPELINE_STAGE_VERTEX_INPUT_BIT,
     accessMask  |-> VK_ACCESS_INDEX_READ_BIT,
     imageLayout |-> VK_IMAGE_LAYOUT_UNDEFINED],
    \* [4] THSVS_ACCESS_VERTEX_BUFFER
    [stageMask   |-> VK_PIPELINE_STAGE_VERTEX_INPUT_BIT,
     accessMask  |-> VK_ACCESS_VERTEX_ATTRIBUTE_READ_BIT,
     imageLayout |-> VK_IMAGE_LAYOUT_UNDEFINED],
    \* [5] THSVS_ACCESS_VERTEX_SHADER_READ_UNIFORM_BUFFER
    [stageMask   |-> VK_PIPELINE_STAGE_VERTEX_SHADER_BIT,
     accessMask  |-> VK_ACCESS_UNIFORM_READ_BIT,
     imageLayout |-> VK_IMAGE_LAYOUT_UNDEFINED],
    \* [6] THSVS_ACCESS_VERTEX_SHADER_READ_SAMPLED_IMAGE
    [stageMask   |-> VK_PIPELINE_STAGE_VERTEX_SHADER_BIT,
     accessMask  |-> VK_ACCESS_SHADER_READ_BIT,
     imageLayout |-> VK_IMAGE_LAYOUT_SHADER_READ_ONLY_OPTIMAL],
    \* [7] THSVS_ACCESS_VERTEX_SHADER_READ_OTHER
    [stageMask   |-> VK_PIPELINE_STAGE_VERTEX_SHADER_BIT,
     accessMask  |-> VK_ACCESS_SHADER_READ_BIT,
     imageLayout |-> VK_IMAGE_LAYOUT_GENERAL],
    \* [8] THSVS_ACCESS_TESSELLATION_CONTROL_SHADER_READ_UNIFORM_BUFFER
    [stageMask   |-> VK_PIPELINE_STAGE_TESSELLATION_CONTROL_SHADER_BIT,
     accessMask  |-> VK_ACCESS_UNIFORM_READ_BIT,
     imageLayout |-> VK_IMAGE_LAYOUT_UNDEFINED],
    \* [9] THSVS_ACCESS_TESSELLATION_CONTROL_SHADER_READ_SAMPLED_IMAGE
    [stageMask   |-> VK_PIPELINE_STAGE_TESSELLATION_CONTROL_SHADER_BIT,
     accessMask  |-> VK_ACCESS_SHADER_READ_BIT,
     imageLayout |-> VK_IMAGE_LAYOUT_SHADER_READ_ONLY_OPTIMAL],
    \* [10] THSVS_ACCESS_TESSELLATION_CONTROL_SHADER_READ_OTHER
    [stageMask   |-> VK_PIPELINE_STAGE_TESSELLATION_CONTROL_SHADER_BIT,
     accessMask  |-> VK_ACCESS_SHADER_READ_BIT,
     imageLayout |-> VK_IMAGE_LAYOUT_GENERAL],
    \* [11] THSVS_ACCESS_TESSELLATION_EVALUATION_SHADER_READ_UNIFORM_BUFFER
    [stageMask   |-> VK_PIPELINE_STAGE_TESSELLATION_EVALUATION_SHADER_BIT,
     accessMask  |-> VK_ACCESS_UNIFORM_READ_BIT,
     imageLayout |-> VK_IMAGE_LAYOUT_UNDEFINED],
    \* [12] THSVS_ACCESS_TESSELLATION_EVALUATION_SHADER_READ_SAMPLED_IMAGE
    [stageMask   |-> VK_PIPELINE_STAGE_TESSELLATION_EVALUATION_SHADER_BIT,
     accessMask  |-> VK_ACCESS_SHADER_READ_BIT,
     imageLayout |-> VK_IMAGE_LAYOUT_SHADER_READ_ONLY_OPTIMAL],
    \* [13] THSVS_ACCESS_TESSELLATION_EVALUATION_SHADER_READ_OTHER
    [stageMask   |-> VK_PIPELINE_STAGE_TESSELLATION_EVALUATION_SHADER_BIT,
     accessMask  |-> VK_ACCESS_SHADER_READ_BIT,
     imageLayout |-> VK_IMAGE_LAYOUT_GENERAL],
    \* [14] THSVS_ACCESS_GEOMETRY_SHADER_READ_UNIFORM_BUFFER
    [stageMask   |-> VK_PIPELINE_STAGE_GEOMETRY_SHADER_BIT,
     accessMask  |-> VK_ACCESS_UNIFORM_READ_BIT,
     imageLayout |-> VK_IMAGE_LAYOUT_UNDEFINED],
    \* [15] THSVS_ACCESS_GEOMETRY_SHADER_READ_SAMPLED_IMAGE
    [stageMask   |-> VK_PIPELINE_STAGE_GEOMETRY_SHADER_BIT,
     accessMask  |-> VK_ACCESS_SHADER_READ_BIT,
     imageLayout |-> VK_IMAGE_LAYOUT_SHADER_READ_ONLY_OPTIMAL],
    \* [16] THSVS_ACCESS_GEOMETRY_SHADER_READ_OTHER
    [stageMask   |-> VK_PIPELINE_STAGE_GEOMETRY_SHADER_BIT,
     accessMask  |-> VK_ACCESS_SHADER_READ_BIT,
     imageLayout |-> VK_IMAGE_LAYOUT_GENERAL],
    \* [17] THSVS_ACCESS_FRAGMENT_SHADER_READ_UNIFORM_BUFFER
    [stageMask   |-> VK_PIPELINE_STAGE_FRAGMENT_SHADER_BIT,
     accessMask  |-> VK_ACCESS_UNIFORM_READ_BIT,
     imageLayout |-> VK_IMAGE_LAYOUT_UNDEFINED],
    \* [18] THSVS_ACCESS_FRAGMENT_SHADER_READ_SAMPLED_IMAGE
    [stageMask   |-> VK_PIPELINE_STAGE_FRAGMENT_SHADER_BIT,
     accessMask  |-> VK_ACCESS_SHADER_READ_BIT,
     imageLayout |-> VK_IMAGE_LAYOUT_SHADER_READ_ONLY_OPTIMAL],
    \* [19] THSVS_ACCESS_FRAGMENT_SHADER_READ_COLOR_INPUT_ATTACHMENT
    [stageMask   |-> VK_PIPELINE_STAGE_FRAGMENT_SHADER_BIT,
     accessMask  |-> VK_ACCESS_INPUT_ATTACHMENT_READ_BIT,
     imageLayout |-> VK_IMAGE_LAYOUT_SHADER_READ_ONLY_OPTIMAL],
    \* [20] THSVS_ACCESS_FRAGMENT_SHADER_READ_DEPTH_STENCIL_INPUT_ATTACHMENT
    [stageMask   |-> VK_PIPELINE_STAGE_FRAGMENT_SHADER_BIT,
     accessMask  |-> VK_ACCESS_DEPTH_STENCIL_ATTACHMENT_READ_BIT,
     imageLayout |-> VK_IMAGE_LAYOUT_DEPTH_STENCIL_READ_ONLY_OPTIMAL],
    \* [21] THSVS_ACCESS_FRAGMENT_SHADER_READ_OTHER
    [stageMask   |-> VK_PIPELINE_STAGE_FRAGMENT_SHADER_BIT,
     accessMask  |-> VK_ACCESS_SHADER_READ_BIT,
     imageLayout |-> VK_IMAGE_LAYOUT_GENERAL],
    \* [22] THSVS_ACCESS_COLOR_ATTACHMENT_READ
    [stageMask   |-> VK_PIPELINE_STAGE_COLOR_ATTACHMENT_OUTPUT_BIT,
     accessMask  |-> VK_ACCESS_COLOR_ATTACHMENT_READ_BIT,
     imageLayout |-> VK_IMAGE_LAYOUT_COLOR_ATTACHMENT_OPTIMAL],
    \* [23] THSVS_ACCESS_DEPTH_STENCIL_ATTACHMENT_READ
    [stageMask   |-> BitOr(VK_PIPELINE_STAGE_EARLY_FRAGMENT_TESTS_BIT, VK_PIPELINE_STAGE_LATE_FRAGMENT_TESTS_BIT),
     accessMask  |-> VK_ACCESS_DEPTH_STENCIL_ATTACHMENT_READ_BIT,
     imageLayout |-> VK_IMAGE_LAYOUT_DEPTH_STENCIL_READ_ONLY_OPTIMAL],
    \* [24] THSVS_ACCESS_COMPUTE_SHADER_READ_UNIFORM_BUFFER
    [stageMask   |-> VK_PIPELINE_STAGE_COMPUTE_SHADER_BIT,
     accessMask  |-> VK_ACCESS_UNIFORM_READ_BIT,
     imageLayout |-> VK_IMAGE_LAYOUT_UNDEFINED],
    \* [25] THSVS_ACCESS_COMPUTE_SHADER_READ_SAMPLED_IMAGE
    [stageMask   |-> VK_PIPELINE_STAGE_COMPUTE_SHADER_BIT,
     accessMask  |-> VK_ACCESS_SHADER_READ_BIT,
     imageLayout |-> VK_IMAGE_LAYOUT_SHADER_READ_ONLY_OPTIMAL],
    \* [26] THSVS_ACCESS_COMPUTE_SHADER_READ_OTHER
    [stageMask   |-> VK_PIPELINE_STAGE_COMPUTE_SHADER_BIT,
     accessMask  |-> VK_ACCESS_SHADER_READ_BIT,
     imageLayout |-> VK_IMAGE_LAYOUT_GENERAL],
    \* [27] THSVS_ACCESS_ANY_SHADER_READ_UNIFORM_BUFFER
    [stageMask   |-> VK_PIPELINE_STAGE_ALL_COMMANDS_BIT,
     accessMask  |-> VK_ACCESS_UNIFORM_READ_BIT,
     imageLayout |-> VK_IMAGE_LAYOUT_UNDEFINED],
    \* [28] THSVS_ACCESS_ANY_SHADER_READ_UNIFORM_BUFFER_OR_VERTEX_BUFFER
    [stageMask   |-> VK_PIPELINE_STAGE_ALL_COMMANDS_BIT,
     accessMask  |-> BitOr(VK_ACCESS_UNIFORM_READ_BIT, VK_ACCESS_VERTEX_ATTRIBUTE_READ_BIT),
     imageLayout |-> VK_IMAGE_LAYOUT_UNDEFINED],
    \* [29] THSVS_ACCESS_ANY_SHADER_READ_SAMPLED_IMAGE
    [stageMask   |-> VK_PIPELINE_STAGE_ALL_COMMANDS_BIT,
     accessMask  |-> VK_ACCESS_SHADER_READ_BIT,
     imageLayout |-> VK_IMAGE_LAYOUT_SHADER_READ_ONLY_OPTIMAL],
    \* [30] THSVS_ACCESS_ANY_SHADER_READ_OTHER
    [stageMask   |-> VK_PIPELINE_STAGE_ALL_COMMANDS_BIT,
     accessMask  |-> VK_ACCESS_SHADER_READ_BIT,
     imageLayout |-> VK_IMAGE_LAYOUT_GENERAL],
    \* [31] THSVS_ACCESS_TRANSFER_READ
    [stageMask   |-> VK_PIPELINE_STAGE_TRANSFER_BIT,
     accessMask  |-> VK_ACCESS_TRANSFER_READ_BIT,
     imageLayout |-> VK_IMAGE_LAYOUT_TRANSFER_SRC_OPTIMAL],
    \* [32] THSVS_ACCESS_HOST_READ
    [stageMask   |-> VK_PIPELINE_STAGE_HOST_BIT,
     accessMask  |-> VK_ACCESS_HOST_READ_BIT,
     imageLayout |-> VK_IMAGE_LAYOUT_GENERAL],
    \* [33] THSVS_ACCESS_PRESENT
    [stageMask   |-> VK_PIPELINE_STAGE_TOP_OF_PIPE_BIT,
     accessMask  |-> 0,
     imageLayout |-> VK_IMAGE_LAYOUT_PRESENT_SRC_KHR],
    \* [34] THSVS_ACCESS_COMMAND_BUFFER_WRITE_NVX
    [stageMask   |-> VK_PIPELINE_STAGE_COMMAND_PROCESS_BIT_NVX,
     accessMask  |-> VK_ACCESS_COMMAND_PROCESS_WRITE_BIT_NVX,
     imageLayout |-> VK_IMAGE_LAYOUT_UNDEFINED],
    \* [35] THSVS_ACCESS_VERTEX_SHADER_WRITE
    [stageMask   |-> VK_PIPELINE_STAGE_VERTEX_SHADER_BIT,
     accessMask  |-> VK_ACCESS_SHADER_WRITE_BIT,
     imageLayout |-> VK_IMAGE_LAYOUT_GENERAL],
    \* [36] THSVS_ACCESS_TESSELLATION_CONTROL_SHADER_WRITE
    [stageMask   |-> VK_PIPELINE_STAGE_TESSELLATION_CONTROL_SHADER_BIT,
     accessMask  |-> VK_ACCESS_SHADER_WRITE_BIT,
     imageLayout |-> VK_IMAGE_LAYOUT_GENERAL],
    \* [37] THSVS_ACCESS_TESSELLATION_EVALUATION_SHADER_WRITE
    [stageMask   |-> VK_PIPELINE_STAGE_TESSELLATION_EVALUATION_SHADER_BIT,
     accessMask  |-> VK_ACCESS_SHADER_WRITE_BIT,
     imageLayout |-> VK_IMAGE_LAYOUT_GENERAL],
    \* [38] THSVS_ACCESS_GEOMETRY_SHADER_WRITE
    [stageMask   |-> VK_PIPELINE_STAGE_GEOMETRY_SHADER_BIT,
     accessMask  |-> VK_ACCESS_SHADER_WRITE_BIT,
     imageLayout |-> VK_IMAGE_LAYOUT_GENERAL],
    \* [39] THSVS_ACCESS_FRAGMENT_SHADER_WRITE
    [stageMask   |-> VK_PIPELINE_STAGE_FRAGMENT_SHADER_BIT,
     accessMask  |-> VK_ACCESS_SHADER_WRITE_BIT,
     imageLayout |-> VK_IMAGE_LAYOUT_GENERAL],
    \* [40] THSVS_ACCESS_COLOR_ATTACHMENT_WRITE
    [stageMask   |-> VK_PIPELINE_STAGE_COLOR_ATTACHMENT_OUTPUT_BIT,
     accessMask  |-> VK_ACCESS_COLOR_ATTACHMENT_WRITE_BIT,
     imageLayout |-> VK_IMAGE_LAYOUT_COLOR_ATTACHMENT_OPTIMAL],
    \* [41] THSVS_ACCESS_DEPTH_STENCIL_ATTACHMENT_WRITE
    [stageMask   |-> BitOr(VK_PIPELINE_STAGE_EARLY_FRAGMENT_TESTS_BIT, VK_PIPELINE_STAGE_LATE_FRAGMENT_TESTS_BIT),
     accessMask  |-> VK_ACCESS_DEPTH_STENCIL_ATTACHMENT_WRITE_BIT,
     imageLayout |-> VK_IMAGE_LAYOUT_DEPTH_STENCIL_ATTACHMENT_OPTIMAL],
    \* [42] THSVS_ACCESS_DEPTH_ATTACHMENT_WRITE_STENCIL_READ_ONLY
    [stageMask   |-> BitOr(VK_PIPELINE_STAGE_EARLY_FRAGMENT_TESTS_BIT, VK_PIPELINE_STAGE_LATE_FRAGMENT_TESTS_BIT),
     accessMask  |-> BitOr(VK_ACCESS_DEPTH_STENCIL_ATTACHMENT_WRITE_BIT, VK_ACCESS_DEPTH_STENCIL_ATTACHMENT_READ_BIT),
     imageLayout |-> VK_IMAGE_LAYOUT_DEPTH_ATTACHMENT_STENCIL_READ_ONLY_OPTIMAL_KHR],
    \* [43] THSVS_ACCESS_STENCIL_ATTACHMENT_WRITE_DEPTH_READ_ONLY
    [stageMask   |-> BitOr(VK_PIPELINE_STAGE_EARLY_FRAGMENT_TESTS_BIT, VK_PIPELINE_STAGE_LATE_FRAGMENT_TESTS_BIT),
     accessMask  |-> BitOr(VK_ACCESS_DEPTH_STENCIL_ATTACHMENT_WRITE_BIT, VK_ACCESS_DEPTH_STENCIL_ATTACHMENT_READ_BIT),
     imageLayout |-> VK_IMAGE_LAYOUT_DEPTH_READ_ONLY_STENCIL_ATTACHMENT_OPTIMAL_KHR],
    \* [44] THSVS_ACCESS_COMPUTE_SHADER_WRITE
    [stageMask   |-> VK_PIPELINE_STAGE_COMPUTE_SHADER_BIT,
     accessMask  |-> VK_ACCESS_SHADER_WRITE_BIT,
     imageLayout |-> VK_IMAGE_LAYOUT_GENERAL],
    \* [45] THSVS_ACCESS_ANY_SHADER_WRITE
    [stageMask   |-> VK_PIPELINE_STAGE_ALL_COMMANDS_BIT,
     accessMask  |-> VK_ACCESS_SHADER_WRITE_BIT,
     imageLayout |-> VK_IMAGE_LAYOUT_GENERAL],
    \* [46] THSVS_ACCESS_TRANSFER_WRITE
    [stageMask   |-> VK_PIPELINE_STAGE_TRANSFER_BIT,
     accessMask  |-> VK_ACCESS_TRANSFER_WRITE_BIT,
     imageLayout |-> VK_IMAGE_LAYOUT_TRANSFER_DST_OPTIMAL],
    \* [47] THSVS_ACCESS_HOST_WRITE
    [stageMask   |-> VK_PIPELINE_STAGE_HOST_BIT,
     accessMask  |-> VK_ACCESS_HOST_WRITE_BIT,
     imageLayout |-> VK_IMAGE_LAYOUT_GENERAL],
    \* [48] THSVS_ACCESS_COLOR_ATTACHMENT_READ_WRITE
    [stageMask   |-> VK_PIPELINE_STAGE_COLOR_ATTACHMENT_OUTPUT_BIT,
     accessMask  |-> BitOr(VK_ACCESS_COLOR_ATTACHMENT_READ_BIT, VK_ACCESS_COLOR_ATTACHMENT_WRITE_BIT),
     imageLayout |-> VK_IMAGE_LAYOUT_COLOR_ATTACHMENT_OPTIMAL],
    \* [49] THSVS_ACCESS_GENERAL
    [stageMask   |-> VK_PIPELINE_STAGE_ALL_COMMANDS_BIT,
     accessMask  |-> BitOr(VK_ACCESS_TYPE_MEMORY_READ_BIT, VK_ACCESS_TYPE_MEMORY_WRITE_BIT),
     imageLayout |-> VK_IMAGE_LAYOUT_GENERAL]
>>

(***************************************************************************)
(* The barrier resolvers.  Each takes the barrier description by value and *)
(* three pointers; `out' stands for what the three pointers refer to:      *)
(* out.pSrcStages is *pSrcStages, out.pDstStages is *pDstStages and        *)
(* out.pVkBarrier is *pVkBarrier.  The optional error checks are compiled  *)
(* out, as in the header as shipped (lines 432, 437 and 445 are comments). *)
(***************************************************************************)

\* A faulty loop body: the masks of the previous access are stored, not OR'd,
\* so the last entry of the list decides them
MemoryBarrierPrevAccess_Assigned(thBarrier, i, out) ==
    LET prevAccess      == thBarrier.pPrevAccesses[i + 1]
        pPrevAccessInfo == ThsvsAccessMap[prevAccess + 1]
    IN  [out EXCEPT
            !.pSrcStages = pPrevAccessInfo.stageMask,
            !.pVkBarrier.srcAccessMask =
                IF prevAccess > THSVS_ACCESS_PRESENT
                THEN pPrevAccessInfo.accessMask
                ELSE @]

\* A faulty loop body: the access mask of every previous access is OR'd into
\* srcAccessMask, the read accesses too
MemoryBarrierPrevAccess_Unfiltered(thBarrier, i, out) ==
    LET prevAccess      == thBarrier.pPrevAccesses[i + 1]
        pPrevAccessInfo == ThsvsAccessMap[prevAccess + 1]
    IN  [out EXCEPT
            !.pSrcStages = BitOr(@, pPrevAccessInfo.stageMask),
            !.pVkBarrier.srcAccessMask = BitOr(@, pPrevAccessInfo.accessMask)]

\* thsvsGetVulkanMemoryBarrier, body of the loop over pPrevAccesses
MemoryBarrierPrevAccess(thBarrier, i, out) ==
    LET prevAccess      == thBarrier.pPrevAccesses[i + 1]
        pPrevAccessInfo == ThsvsAccessMap[prevAccess + 1]
    IN  [out EXCEPT
            !.pSrcStages = BitOr(@, pPrevAccessInfo.stageMask),
            !.pVkBarrier.srcAccessMask =
                IF prevAccess > THSVS_ACCESS_PRESENT
                THEN BitOr(@, pPrevAccessInfo.accessMask)
                ELSE @]

RECURSIVE MemoryBarrierPrevLoop(_, _, _)
MemoryBarrierPrevLoop(thBarrier, i, out) ==
    IF i < thBarrier.prevAccessCount
    THEN MemoryBarrierPrevLoop(thBarrier, i + 1,
                               MemoryBarrierPrevAccess(thBarrier, i, out))
    ELSE out

\* A faulty loop body: the stage mask of the next access is added to
\* *pDstStages with + where the source has |=
MemoryBarrierNextAccess_StageAdded(thBarrier, i, out) ==
    LET nextAccess      == thBarrier.pNextAccesses[i + 1]
        pNextAccessInfo == ThsvsAccessMap[nextAccess + 1]
    IN  [out EXCEPT
            !.pDstStages = @ + pNextAccessInfo.stageMask,
            !.pVkBarrier.dstAccessMask = BitOr(@, pNextAccessInfo.accessMask)]

\* A faulty loop body: a next access is granted its access bits only when
\* srcAccessMask is not 0
MemoryBarrierNextAccess_OnlyAfterWrite(thBarrier, i, out) ==
    LET nextAccess      == thBarrier.pNextAccesses[i + 1]
        pNextAccessInfo == ThsvsAccessMap[nextAccess + 1]
    IN  [out EXCEPT
            !.pDstStages = BitOr(@, pNextAccessInfo.stageMask),
            !.pVkBarrier.dstAccessMask =
                IF out.pVkBarrier.srcAccessMask # 0
                THEN BitOr(@, pNextAccessInfo.accessMask)
                ELSE @]

\* thsvsGetVulkanMemoryBarrier, body of the loop over pNextAccesses
MemoryBarrierNextAccess(thBarrier, i, out) ==
    LET nextAccess      == thBarrier.pNextAccesses[i + 1]
        pNextAccessInfo == ThsvsAccessMap[nextAccess + 1]
    IN  [out EXCEPT
            !.pDstStages = BitOr(@, pNextAccessInfo.stageMask),
            !.pVkBarrier.dstAccessMask = BitOr(@, pNextAccessInfo.accessMask)]

RECURSIVE MemoryBarrierNextLoop(_, _, _)
MemoryBarrierNextLoop(thBarrier, i, out) ==
    IF i < thBarrier.nextAccessCount
    THEN MemoryBarrierNextLoop(thBarrier, i + 1,
                               MemoryBarrierNextAccess(thBarrier, i, out))
    ELSE out

\* thsvsGetVulkanMemoryBarrier, the four stores that precede the loops
MemoryBarrierHeader(thBarrier, out) ==
    [out EXCEPT
        !.pVkBarrier.sType         = VK_STRUCTURE_TYPE_MEMORY_BARRIER,
        !.pVkBarrier.pNext         = NULL,
        !.pVkBarrier.srcAccessMask = 0,
        !.pVkBarrier.dstAccessMask = 0]

\* A faulty resolver: a stage word that is 0 after the loops is replaced by
\* the start-of-pipeline or end-of-pipeline stage
thsvsGetVulkanMemoryBarrier_DefaultStages(thBarrier, out) ==
    LET r == MemoryBarrierNextLoop(thBarrier, 0,
                 MemoryBarrierPrevLoop(thBarrier, 0,
                     MemoryBarrierHeader(thBarrier, out)))
    IN  [r EXCEPT
            !.pSrcStages = IF @ = 0 THEN VK_PIPELINE_STAGE_TOP_OF_PIPE_BIT ELSE @,
            !.pDstStages = IF @ = 0 THEN VK_PIPELINE_STAGE_BOTTOM_OF_PIPE_BIT ELSE @]

thsvsGetVulkanMemoryBarrier(thBarrier, out) ==
    MemoryBarrierNextLoop(thBarrier, 0,
        MemoryBarrierPrevLoop(thBarrier, 0,
            MemoryBarrierHeader(thBarrier, out)))

\* A faulty loop body: the buffer resolver alone ORs the access mask of a
\* read-class access into srcAccessMask
BufferBarrierPrevAccess_Unfiltered(thBarrier, i, out) ==
    LET prevAccess      == thBarrier.pPrevAccesses[i + 1]
        pPrevAccessInfo == ThsvsAccessMap[prevAccess + 1]
    IN  [out EXCEPT
            !.pSrcStages = BitOr(@, pPrevAccessInfo.stageMask),
            !.pVkBarrier.srcAccessMask = BitOr(@, pPrevAccessInfo.accessMask)]

\* thsvsGetVulkanBufferMemoryBarrier, body of the loop over pPrevAccesses
BufferBarrierPrevAccess(thBarrier, i, out) ==
    LET prevAccess      == thBarrier.pPrevAccesses[i + 1]
        pPrevAccessInfo == ThsvsAccessMap[prevAccess + 1]
    IN  [out EXCEPT
            !.pSrcStages = BitOr(@, pPrevAccessInfo.stageMask),
            !.pVkBarrier.srcAccessMask =
                IF prevAccess > THSVS_ACCESS_PRESENT
                THEN BitOr(@, pPrevAccessInfo.accessMask)
                ELSE @]

RECURSIVE BufferBarrierPrevLoop(_, _, _)
BufferBarrierPrevLoop(thBarrier, i, out) ==
    IF i < thBarrier.prevAccessCount
    THEN BufferBarrierPrevLoop(thBarrier, i + 1,
                               BufferBarrierPrevAccess(thBarrier, i, out))
    ELSE out

\* A faulty loop body: *pDstStages is assigned, not OR'd into
BufferBarrierNextAccess_StageAssigned(thBarrier, i, out) ==
    LET nextAccess      == thBarrier.pNextAccesses[i + 1]
        pNextAccessInfo == ThsvsAccessMap[nextAccess + 1]
    IN  [out EXCEPT
            !.pDstStages = pNextAccessInfo.stageMask,
            !.pVkBarrier.dstAccessMask = BitOr(@, pNextAccessInfo.accessMask)]

\* thsvsGetVulkanBufferMemoryBarrier, body of the loop over pNextAccesses
BufferBarrierNextAccess(thBarrier, i, out) ==
    LET nextAccess      == thBarrier.pNextAccesses[i + 1]
        pNextAccessInfo == ThsvsAccessMap[nextAccess + 1]
    IN  [out EXCEPT
            !.pDstStages = BitOr(@, pNextAccessInfo.stageMask),
            !.pVkBarrier.dstAccessMask = BitOr(@, pNextAccessInfo.accessMask)]

RECURSIVE BufferBarrierNextLoop(_, _, _)
BufferBarrierNextLoop(thBarrier, i, out) ==
    IF i < thBarrier.nextAccessCount
    THEN BufferBarrierNextLoop(thBarrier, i + 1,
                               BufferBarrierNextAccess(thBarrier, i, out))
    ELSE out

\* A faulty header: size is stored from the offset of the description
BufferBarrierHeader_SizeFromOffset(thBarrier, out) ==
    [out EXCEPT
        !.pVkBarrier.sType               = VK_STRUCTURE_TYPE_BUFFER_MEMORY_BARRIER,
        !.pVkBarrier.pNext               = NULL,
        !.pVkBarrier.srcAccessMask       = 0,
        !.pVkBarrier.dstAccessMask       = 0,
        !.pVkBarrier.srcQueueFamilyIndex = thBarrier.srcQueueFamilyIndex,
        !.pVkBarrier.dstQueueFamilyIndex = thBarrier.dstQueueFamilyIndex,
        !.pVkBarrier.buffer              = thBarrier.buffer,
        !.pVkBarrier.offset              = thBarrier.offset,
        !.pVkBarrier.size                = thBarrier.offset]

\* thsvsGetVulkanBufferMemoryBarrier, the stores that precede the loops
BufferBarrierHeader(thBarrier, out) ==
    [out EXCEPT
        !.pVkBarrier.sType               = VK_STRUCTURE_TYPE_BUFFER_MEMORY_BARRIER,
        !.pVkBarrier.pNext               = NULL,
        !.pVkBarrier.srcAccessMask       = 0,
        !.pVkBarrier.dstAccessMask       = 0,
        !.pVkBarrier.srcQueueFamilyIndex = thBarrier.srcQueueFamilyIndex,
        !.pVkBarrier.dstQueueFamilyIndex = thBarrier.dstQueueFamilyIndex,
        !.pVkBarrier.buffer              = thBarrier.buffer,
        !.pVkBarrier.offset              = thBarrier.offset,
        !.pVkBarrier.size                = thBarrier.size]

thsvsGetVulkanBufferMemoryBarrier(thBarrier, out) ==
    BufferBarrierNextLoop(thBarrier, 0,
        BufferBarrierPrevLoop(thBarrier, 0,
            BufferBarrierHeader(thBarrier, out)))

\* A faulty switch: the THSVS_IMAGE_LAYOUT_GENERAL case has no break and
\* falls through to the THSVS_IMAGE_LAYOUT_OPTIMAL case
ImageBarrierPrevLayout_FallThrough(thBarrier, prevAccess) ==
    CASE thBarrier.prevLayout = THSVS_IMAGE_LAYOUT_GENERAL ->
            ThsvsAccessMap[prevAccess + 1].imageLayout
      [] thBarrier.prevLayout = THSVS_IMAGE_LAYOUT_OPTIMAL ->
            ThsvsAccessMap[prevAccess + 1].imageLayout
      [] thBarrier.prevLayout = THSVS_IMAGE_LAYOUT_GENERAL_AND_PRESENTATION ->
            VK_IMAGE_LAYOUT_SHARED_PRESENT_KHR

\* thsvsGetVulkanImageMemoryBarrier, switch (thBarrier.prevLayout); the three
\* layout modes are the only values of the enumeration
ImageBarrierPrevLayout(thBarrier, prevAccess) ==
    CASE thBarrier.prevLayout = THSVS_IMAGE_LAYOUT_GENERAL ->
            IF prevAccess = THSVS_ACCESS_PRESENT
            THEN VK_IMAGE_LAYOUT_PRESENT_SRC_KHR
            ELSE VK_IMAGE_LAYOUT_GENERAL
      [] thBarrier.prevLayout = THSVS_IMAGE_LAYOUT_OPTIMAL ->
            ThsvsAccessMap[prevAccess + 1].imageLayout
      [] thBarrier.prevLayout = THSVS_IMAGE_LAYOUT_GENERAL_AND_PRESENTATION ->
            VK_IMAGE_LAYOUT_SHARED_PRESENT_KHR

\* A faulty loop body: the access mask of a read-class access is OR'd into
\* srcAccessMask as well
ImageBarrierPrevAccess_Unfiltered(thBarrier, i, out) ==
    LET prevAccess      == thBarrier.pPrevAccesses[i + 1]
        pPrevAccessInfo == ThsvsAccessMap[prevAccess + 1]
    IN  [out EXCEPT
            !.pSrcStages = BitOr(@, pPrevAccessInfo.stageMask),
            !.pVkBarrier.srcAccessMask = BitOr(@, pPrevAccessInfo.accessMask),
            !.pVkBarrier.oldLayout =
                IF thBarrier.discardContents = VK_TRUE
                THEN VK_IMAGE_LAYOUT_UNDEFINED
                ELSE ImageBarrierPrevLayout(thBarrier, prevAccess)]

\* A faulty loop body: oldLayout is stored for the first previous access only,
\* so the first entry of the list decides it
ImageBarrierPrevAccess_FirstLayoutKept(thBarrier, i, out) ==
    LET prevAccess      == thBarrier.pPrevAccesses[i + 1]
        pPrevAccessInfo == ThsvsAccessMap[prevAccess + 1]
    IN  [out EXCEPT
            !.pSrcStages = BitOr(@, pPrevAccessInfo.stageMask),
            !.pVkBarrier.srcAccessMask =
                IF prevAccess > THSVS_ACCESS_PRESENT
                THEN BitOr(@, pPrevAccessInfo.accessMask)
                ELSE @,
            !.pVkBarrier.oldLayout =
                IF i > 0
                THEN @
                ELSE IF thBarrier.discardContents = VK_TRUE
                     THEN VK_IMAGE_LAYOUT_UNDEFINED
                     ELSE ImageBarrierPrevLayout(thBarrier, prevAccess)]

\* thsvsGetVulkanImageMemoryBarrier, body of the loop over pPrevAccesses
ImageBarrierPrevAccess(thBarrier, i, out) ==
    LET prevAccess      == thBarrier.pPrevAccesses[i + 1]
        pPrevAccessInfo == ThsvsAccessMap[prevAccess + 1]
    IN  [out EXCEPT
            !.pSrcStages = BitOr(@, pPrevAccessInfo.stageMask),
            !.pVkBarrier.srcAccessMask =
                IF prevAccess > THSVS_ACCESS_PRESENT
                THEN BitOr(@, pPrevAccessInfo.accessMask)
                ELSE @,
            !.pVkBarrier.oldLayout =
                IF thBarrier.discardContents = VK_TRUE
                THEN VK_IMAGE_LAYOUT_UNDEFINED
                ELSE ImageBarrierPrevLayout(thBarrier, prevAccess)]

RECURSIVE ImageBarrierPrevLoop(_, _, _)
ImageBarrierPrevLoop(thBarrier, i, out) ==
    IF i < thBarrier.prevAccessCount
    THEN ImageBarrierPrevLoop(thBarrier, i + 1,
                              ImageBarrierPrevAccess(thBarrier, i, out))
    ELSE out

\* A faulty switch: the THSVS_IMAGE_LAYOUT_GENERAL case does not test for
\* THSVS_ACCESS_PRESENT
ImageBarrierNextLayout_NoPresentTest(thBarrier, nextAccess) ==
    CASE thBarrier.nextLayout = THSVS_IMAGE_LAYOUT_GENERAL ->
            VK_IMAGE_LAYOUT_GENERAL
      [] thBarrier.nextLayout = THSVS_IMAGE_LAYOUT_OPTIMAL ->
            ThsvsAccessMap[nextAccess + 1].imageLayout
      [] thBarrier.nextLayout = THSVS_IMAGE_LAYOUT_GENERAL_AND_PRESENTATION ->
            VK_IMAGE_LAYOUT_SHARED_PRESENT_KHR

\* A faulty switch: the THSVS_IMAGE_LAYOUT_GENERAL_AND_PRESENTATION case
\* gives the general layout
ImageBarrierNextLayout_PresentationIsGeneral(thBarrier, nextAccess) ==
    CASE thBarrier.nextLayout = THSVS_IMAGE_LAYOUT_GENERAL ->
            IF nextAccess = THSVS_ACCESS_PRESENT
            THEN VK_IMAGE_LAYOUT_PRESENT_SRC_KHR
            ELSE VK_IMAGE_LAYOUT_GENERAL
      [] thBarrier.nextLayout = THSVS_IMAGE_LAYOUT_OPTIMAL ->
            ThsvsAccessMap[nextAccess + 1].imageLayout
      [] thBarrier.nextLayout = THSVS_IMAGE_LAYOUT_GENERAL_AND_PRESENTATION ->
            VK_IMAGE_LAYOUT_GENERAL

\* thsvsGetVulkanImageMemoryBarrier, switch (thBarrier.nextLayout)
ImageBarrierNextLayout(thBarrier, nextAccess) ==
    CASE thBarrier.nextLayout = THSVS_IMAGE_LAYOUT_GENERAL ->
            IF nextAccess = THSVS_ACCESS_PRESENT
            THEN VK_IMAGE_LAYOUT_PRESENT_SRC_KHR
            ELSE VK_IMAGE_LAYOUT_GENERAL
      [] thBarrier.nextLayout = THSVS_IMAGE_LAYOUT_OPTIMAL ->
            ThsvsAccessMap[nextAccess + 1].imageLayout
      [] thBarrier.nextLayout = THSVS_IMAGE_LAYOUT_GENERAL_AND_PRESENTATION ->
            VK_IMAGE_LAYOUT_SHARED_PRESENT_KHR

\* A faulty loop body: the access mask of the next access is stored over
\* dstAccessMask, not OR'd into it
ImageBarrierNextAccess_AccessAssigned(thBarrier, i, out) ==
    LET nextAccess      == thBarrier.pNextAccesses[i + 1]
        pNextAccessInfo == ThsvsAccessMap[nextAccess + 1]
    IN  [out EXCEPT
            !.pDstStages = BitOr(@, pNextAccessInfo.stageMask),
            !.pVkBarrier.dstAccessMask = pNextAccessInfo.accessMask,
            !.pVkBarrier.newLayout = ImageBarrierNextLayout(thBarrier, nextAccess)]

\* A faulty loop body: discardContents is applied to the new layout as well
ImageBarrierNextAccess_DiscardsNewLayout(thBarrier, i, out) ==
    LET nextAccess      == thBarrier.pNextAccesses[i + 1]
        pNextAccessInfo == ThsvsAccessMap[nextAccess + 1]
    IN  [out EXCEPT
            !.pDstStages = BitOr(@, pNextAccessInfo.stageMask),
            !.pVkBarrier.dstAccessMask = BitOr(@, pNextAccessInfo.accessMask),
            !.pVkBarrier.newLayout =
                IF thBarrier.discardContents = VK_TRUE
                THEN VK_IMAGE_LAYOUT_UNDEFINED
                ELSE ImageBarrierNextLayout(thBarrier, nextAccess)]

\* thsvsGetVulkanImageMemoryBarrier, body of the loop over pNextAccesses
ImageBarrierNextAccess(thBarrier, i, out) ==
    LET nextAccess      == thBarrier.pNextAccesses[i + 1]
        pNextAccessInfo == ThsvsAccessMap[nextAccess + 1]
    IN  [out EXCEPT
            !.pDstStages = BitOr(@, pNextAccessInfo.stageMask),
            !.pVkBarrier.dstAccessMask = BitOr(@, pNextAccessInfo.accessMask),
            !.pVkBarrier.newLayout = ImageBarrierNextLayout(thBarrier, nextAccess)]

RECURSIVE ImageBarrierNextLoop(_, _, _)
ImageBarrierNextLoop(thBarrier, i, out) ==
    IF i < thBarrier.nextAccessCount
    THEN ImageBarrierNextLoop(thBarrier, i + 1,
                              ImageBarrierNextAccess(thBarrier, i, out))
    ELSE out

\* A faulty header: the access masks are not zeroed before the loops OR bits
\* into them
ImageBarrierHeader_AccessNotZeroed(thBarrier, out) ==
    [out EXCEPT
        !.pVkBarrier.sType               = VK_STRUCTURE_TYPE_IMAGE_MEMORY_BARRIER,
        !.pVkBarrier.pNext               = NULL,
        !.pVkBarrier.srcQueueFamilyIndex = thBarrier.srcQueueFamilyIndex,
        !.pVkBarrier.dstQueueFamilyIndex = thBarrier.dstQueueFamilyIndex,
        !.pVkBarrier.image               = thBarrier.image,
        !.pVkBarrier.subresourceRange    = thBarrier.subresourceRange]

\* thsvsGetVulkanImageMemoryBarrier, the stores that precede the loops
ImageBarrierHeader(thBarrier, out) ==
    [out EXCEPT
        !.pVkBarrier.sType               = VK_STRUCTURE_TYPE_IMAGE_MEMORY_BARRIER,
        !.pVkBarrier.pNext               = NULL,
        !.pVkBarrier.srcAccessMask       = 0,
        !.pVkBarrier.dstAccessMask       = 0,
        !.pVkBarrier.srcQueueFamilyIndex = thBarrier.srcQueueFamilyIndex,
        !.pVkBarrier.dstQueueFamilyIndex = thBarrier.dstQueueFamilyIndex,
        !.pVkBarrier.image               = thBarrier.image,
        !.pVkBarrier.subresourceRange    = thBarrier.subresourceRange]

thsvsGetVulkanImageMemoryBarrier(thBarrier, out) ==
    ImageBarrierNextLoop(thBarrier, 0,
        ImageBarrierPrevLoop(thBarrier, 0,
            ImageBarrierHeader(thBarrier, out)))

(***************************************************************************)
(* The caller: barrier descriptions and output storage it can hand over.   *)
(***************************************************************************)

\* Most accesses a sampled barrier lists, previous and next together
MaxAccessCount == 3

AccessTypes == 0 .. (THSVS_NUM_ACCESS_TYPES - 1)

\* Accesses the lists of several entries are built from: a read whose
\* registry entry has an access bit and no layout, the last read-class
\* ordinal, and a write
AccessSample ==
    { THSVS_ACCESS_INDEX_BUFFER,
      THSVS_ACCESS_PRESENT,
      THSVS_ACCESS_COLOR_ATTACHMENT_WRITE }

SeqsUpTo(S, n) == UNION { [1 .. m -> S] : m \in 0 .. n }

\* (pPrevAccesses, pNextAccesses) of the barriers that main() of the test
\* program resolves, in the order of the calls
TestListPairs ==
    { << <<THSVS_ACCESS_COMPUTE_SHADER_WRITE>>, <<THSVS_ACCESS_COMPUTE_SHADER_READ_OTHER>> >>,
      << <<THSVS_ACCESS_COMPUTE_SHADER_READ_OTHER>>, <<THSVS_ACCESS_COMPUTE_SHADER_WRITE>> >>,
      << <<THSVS_ACCESS_COMPUTE_SHADER_WRITE>>, <<THSVS_ACCESS_INDEX_BUFFER>> >>,
      << <<THSVS_ACCESS_COMPUTE_SHADER_WRITE>>,
         <<THSVS_ACCESS_INDEX_BUFFER, THSVS_ACCESS_COMPUTE_SHADER_READ_UNIFORM_BUFFER>> >>,
      << <<THSVS_ACCESS_COMPUTE_SHADER_WRITE>>, <<THSVS_ACCESS_INDIRECT_BUFFER>> >>,
      << <<THSVS_ACCESS_COMPUTE_SHADER_WRITE>>,
         <<THSVS_ACCESS_FRAGMENT_SHADER_READ_SAMPLED_IMAGE_OR_UNIFORM_TEXEL_BUFFER>> >>,
      << <<THSVS_ACCESS_COMPUTE_SHADER_WRITE>>,
         <<THSVS_ACCESS_INDIRECT_BUFFER, THSVS_ACCESS_FRAGMENT_SHADER_READ_UNIFORM_BUFFER>> >>,
      << <<THSVS_ACCESS_COLOR_ATTACHMENT_WRITE>>,
         <<THSVS_ACCESS_COMPUTE_SHADER_READ_SAMPLED_IMAGE_OR_UNIFORM_TEXEL_BUFFER>> >>,
      << <<THSVS_ACCESS_DEPTH_STENCIL_ATTACHMENT_WRITE>>,
         <<THSVS_ACCESS_COMPUTE_SHADER_READ_SAMPLED_IMAGE_OR_UNIFORM_TEXEL_BUFFER>> >>,
      << <<THSVS_ACCESS_DEPTH_STENCIL_ATTACHMENT_WRITE>>,
         <<THSVS_ACCESS_FRAGMENT_SHADER_READ_DEPTH_STENCIL_INPUT_ATTACHMENT>> >>,
      << <<THSVS_ACCESS_DEPTH_STENCIL_ATTACHMENT_WRITE>>,
         <<THSVS_ACCESS_FRAGMENT_SHADER_READ_SAMPLED_IMAGE_OR_UNIFORM_TEXEL_BUFFER>> >>,
      << <<THSVS_ACCESS_COLOR_ATTACHMENT_WRITE>>,
         <<THSVS_ACCESS_FRAGMENT_SHADER_READ_COLOR_INPUT_ATTACHMENT>> >>,
      << <<THSVS_ACCESS_COLOR_ATTACHMENT_WRITE>>,
         <<THSVS_ACCESS_FRAGMENT_SHADER_READ_SAMPLED_IMAGE_OR_UNIFORM_TEXEL_BUFFER>> >>,
      << <<THSVS_ACCESS_COLOR_ATTACHMENT_WRITE>>,
         <<THSVS_ACCESS_VERTEX_SHADER_READ_SAMPLED_IMAGE_OR_UNIFORM_TEXEL_BUFFER>> >>,
      << <<THSVS_ACCESS_FRAGMENT_SHADER_READ_SAMPLED_IMAGE_OR_UNIFORM_TEXEL_BUFFER>>,
         <<THSVS_ACCESS_COLOR_ATTACHMENT_WRITE>> >>,
      << <<THSVS_ACCESS_NONE>>, <<THSVS_ACCESS_TRANSFER_READ>> >>,
      << <<THSVS_ACCESS_TRANSFER_WRITE>>, <<THSVS_ACCESS_VERTEX_BUFFER>> >>,
      << <<THSVS_ACCESS_TRANSFER_WRITE>>,
         <<THSVS_ACCESS_FRAGMENT_SHADER_READ_SAMPLED_IMAGE_OR_UNIFORM_TEXEL_BUFFER>> >>,
      << <<THSVS_ACCESS_COLOR_ATTACHMENT_WRITE>>, <<THSVS_ACCESS_PRESENT>> >>,
      << <<THSVS_ACCESS_GENERAL>>, <<THSVS_ACCESS_GENERAL>> >> }

\* (pPrevAccesses, pNextAccesses) with THSVS_ACCESS_NONE beside another
\* access or opposite presentation
NoneListPairs ==
    { << <<THSVS_ACCESS_NONE>>, <<THSVS_ACCESS_PRESENT>> >>,
      << <<THSVS_ACCESS_INDEX_BUFFER>>, <<THSVS_ACCESS_NONE>> >>,
      << <<THSVS_ACCESS_INDEX_BUFFER>>, <<THSVS_ACCESS_NONE, THSVS_ACCESS_PRESENT>> >>,
      << <<THSVS_ACCESS_NONE, THSVS_ACCESS_INDEX_BUFFER>>, <<THSVS_ACCESS_PRESENT>> >> }

\* (pPrevAccesses, pNextAccesses) of the barriers the caller describes: every
\* pair of sampled lists of at most MaxAccessCount accesses together, every
\* declared access type as the only access of both sides, the pairs of the
\* test program and the pairs with THSVS_ACCESS_NONE
AccessListPairs ==
    { pn \in SeqsUpTo(AccessSample, MaxAccessCount)
                \X SeqsUpTo(AccessSample, MaxAccessCount) :
      Len(pn[1]) + Len(pn[2]) <= MaxAccessCount }
    \cup { << <<a>>, <<a>> >> : a \in AccessTypes }
    \cup TestListPairs
    \cup NoneListPairs

ImageLayouts ==
    { THSVS_IMAGE_LAYOUT_OPTIMAL,
      THSVS_IMAGE_LAYOUT_GENERAL,
      THSVS_IMAGE_LAYOUT_GENERAL_AND_PRESENTATION }

\* struct ThsvsGlobalBarrier
GlobalBarriers ==
    { [prevAccessCount |-> Len(p[1]), pPrevAccesses |-> p[1],
       nextAccessCount |-> Len(p[2]), pNextAccesses |-> p[2]] :
      p \in AccessListPairs }

\* struct ThsvsBufferBarrier
BufferBarriers ==
    { [prevAccessCount |-> Len(p[1]), pPrevAccesses |-> p[1],
       nextAccessCount |-> Len(p[2]), pNextAccesses |-> p[2],
       srcQueueFamilyIndex |-> 0, dstQueueFamilyIndex |-> q,
       buffer |-> 5, offset |-> 16, size |-> 64] :
      p \in AccessListPairs, q \in {0, 1} }

\* struct ThsvsImageBarrier
ImageBarriers ==
    { [prevAccessCount |-> Len(p[1]), pPrevAccesses |-> p[1],
       nextAccessCount |-> Len(p[2]), pNextAccesses |-> p[2],
       prevLayout |-> pl, nextLayout |-> nl, discardContents |-> d,
       srcQueueFamilyIndex |-> 0, dstQueueFamilyIndex |-> 1,
       image |-> 6, subresourceRange |-> <<1, 0, 1, 0, 1>>] :
      p \in AccessListPairs, pl \in ImageLayouts, nl \in ImageLayouts,
      d \in {VK_FALSE, VK_TRUE} }

\* VkMemoryBarrier, VkBufferMemoryBarrier and VkImageMemoryBarrier records
\* with every field holding v: v = 0 is the record the tests pass
\* (VkMemoryBarrier vkBarrier = { 0 }), another v a record nobody initialised
\* (the scratch records of thsvsCmdPipelineBarrier come from alloca)
VkMemoryBarrier(v) ==
    [sType |-> v, pNext |-> v, srcAccessMask |-> v, dstAccessMask |-> v]

VkBufferMemoryBarrier(v) ==
    [sType |-> v, pNext |-> v, srcAccessMask |-> v, dstAccessMask |-> v,
     srcQueueFamilyIndex |-> v, dstQueueFamilyIndex |-> v,
     buffer |-> v, offset |-> v, size |-> v]

VkImageMemoryBarrier(v) ==
    [sType |-> v, pNext |-> v, srcAccessMask |-> v, dstAccessMask |-> v,
     oldLayout |-> v, newLayout |-> v,
     srcQueueFamilyIndex |-> v, dstQueueFamilyIndex |-> v,
     image |-> v, subresourceRange |-> <<v, v, v, v, v>>]

\* Output storage at the first call: zeroed as in the tests, zero stage words
\* with a record that was not initialised, and the stage words of
\* thsvsCmdPipelineBarrier with a record that was not initialised
Storages(zeroed, uninitialised) ==
    { [pSrcStages |-> 0, pDstStages |-> 0, pVkBarrier |-> zeroed],
      [pSrcStages |-> 0, pDstStages |-> 0, pVkBarrier |-> uninitialised],
      [pSrcStages |-> VK_PIPELINE_STAGE_TOP_OF_PIPE_BIT,
       pDstStages |-> VK_PIPELINE_STAGE_BOTTOM_OF_PIPE_BIT,
       pVkBarrier |-> uninitialised] }

VARIABLES
    shape,        \* which resolver the caller uses: "global", "buffer", "image"
    thBarrier,    \* the barrier description passed by value
    pSrcStages,   \* *pSrcStages
    pDstStages,   \* *pDstStages
    pVkBarrier,   \* *pVkBarrier
    entry,        \* the output storage as it was when the last call was made
    returned,     \* whether a call has returned
    defined,      \* the error check macros defined where the implementation is compiled
    halted,       \* whether an assert of a call has failed and ended the process
    threads,      \* the call each thread is in and the memory the calls work on
    call,         \* the arguments of the last wrapper call; of every wrapper
                  \* call, in order, where several threads record
    commands,     \* the vkCmd* commands issued so far, in order
    scratch       \* what has happened to each temp_alloc'd array, in order;
                  \* one such log for each call where several threads record

\* the state of the wrappers and of the calling threads
wrapperVars == <<threads, call, commands, scratch>>

vars == <<shape, thBarrier, pSrcStages, pDstStages, pVkBarrier, entry, returned,
         defined, halted, threads, call, commands, scratch>>

\* no thread is inside a resolver and no wrapper has been called
NoWrapperCall ==
    /\ threads = << >>
    /\ call = << >>
    /\ commands = << >>
    /\ scratch = << >>

\* the output storage as one value
Out == [pSrcStages |-> pSrcStages, pDstStages |-> pDstStages, pVkBarrier |-> pVkBarrier]

Start(s, b, o) ==
    /\ shape = s
    /\ thBarrier = b
    /\ pSrcStages = o.pSrcStages
    /\ pDstStages = o.pDstStages
    /\ pVkBarrier = o.pVkBarrier
    /\ entry = o
    /\ returned = FALSE

\* a description and output storage for a first call
InitCall ==
    \/ \E b \in GlobalBarriers,
          o \in Storages(VkMemoryBarrier(0), VkMemoryBarrier(7)) :
            Start("global", b, o)
    \/ \E b \in BufferBarriers,
          o \in Storages(VkBufferMemoryBarrier(0), VkBufferMemoryBarrier(7)) :
            Start("buffer", b, o)
    \/ \E b \in ImageBarriers,
          o \in Storages(VkImageMemoryBarrier(0), VkImageMemoryBarrier(7)) :
            Start("image", b, o)

\* the header as shipped: the three #define lines of the error checks are
\* comments
Init ==
    /\ defined = {}
    /\ halted = FALSE
    /\ NoWrapperCall
    /\ InitCall

Return(o) ==
    /\ entry' = Out
    /\ pSrcStages' = o.pSrcStages
    /\ pDstStages' = o.pDstStages
    /\ pVkBarrier' = o.pVkBarrier
    /\ returned' = TRUE
    /\ UNCHANGED <<shape, thBarrier, defined, halted>>
    /\ UNCHANGED wrapperVars

CallMemoryBarrier ==
    /\ shape = "global"
    /\ Return(thsvsGetVulkanMemoryBarrier(thBarrier, Out))

CallBufferMemoryBarrier ==
    /\ shape = "buffer"
    /\ Return(thsvsGetVulkanBufferMemoryBarrier(thBarrier, Out))

CallImageMemoryBarrier ==
    /\ shape = "image"
    /\ Return(thsvsGetVulkanImageMemoryBarrier(thBarrier, Out))

Next ==
    \/ CallMemoryBarrier
    \/ CallBufferMemoryBarrier
    \/ CallImageMemoryBarrier

Spec == Init /\ [][Next]_vars

(***************************************************************************)
(* A caller that resolves image barriers only.                             *)
(***************************************************************************)

\* a description of an image barrier and output storage for a first call
InitImage ==
    /\ defined = {}
    /\ halted = FALSE
    /\ NoWrapperCall
    /\ \E b \in ImageBarriers,
          o \in Storages(VkImageMemoryBarrier(0), VkImageMemoryBarrier(7)) :
            Start("image", b, o)

NextImage == CallImageMemoryBarrier

SpecImage == InitImage /\ [][NextImage]_vars

(***************************************************************************)
(* The implementation compiled with error checks.  Each check is an assert *)
(* under #ifdef; a failed assert ends the process inside the call, so the  *)
(* call never returns.                                                     *)
(***************************************************************************)

\* the three optional #define lines of the header
ErrorChecks ==
    { "THSVS_ERROR_CHECK_MIXED_IMAGE_LAYOUT",
      "THSVS_ERROR_CHECK_COULD_USE_GLOBAL_BARRIER",
      "THSVS_ERROR_CHECK_POTENTIAL_HAZARD" }

\* #ifdef macro
Defined(macro) == macro \in defined

\* a step guarded by an assert: it ends the process where it stands when the
\* asserted condition is false
Asserted(ok, before, after) ==
    IF ok THEN [out |-> after, halted |-> FALSE]
          ELSE [out |-> before, halted |-> TRUE]

\* A faulty assert: THSVS_ACCESS_PRESENT is taken for a write
PotentialHazardAssert_PresentIsWrite(access, accessCount) ==
    access < THSVS_ACCESS_PRESENT \/ accessCount = 1

\* assert(prevAccess <= THSVS_ACCESS_PRESENT || thBarrier.prevAccessCount == 1)
\* and the same line for nextAccess, in each of the three resolvers
PotentialHazardAssert(access, accessCount) ==
    access <= THSVS_ACCESS_PRESENT \/ accessCount = 1

\* assert(pVkBarrier->oldLayout == VK_IMAGE_LAYOUT_UNDEFINED ||
\*        pVkBarrier->oldLayout == layout), and the same for newLayout
MixedImageLayoutAssert(current, layout) ==
    current = VK_IMAGE_LAYOUT_UNDEFINED \/ current = layout

\* assert(pVkBarrier.srcQueueFamilyIndex != pVkBarrier.dstQueueFamilyIndex),
\* the line that closes the body of the image resolver's loop over
\* pPrevAccesses.  pVkBarrier is a pointer, so the argument is ill-formed and
\* the line compiles only where assert expands to nothing (NDEBUG): a build
\* with THSVS_ERROR_CHECK_COULD_USE_GLOBAL_BARRIER is such a build, and in it
\* the line tests nothing, whatever the record holds
CouldUseGlobalBarrierLoopAssert(vkBarrier) == TRUE

\* assert(pVkBarrier.newLayout != pVkBarrier.oldLayout ||
\*        pVkBarrier.srcQueueFamilyIndex != pVkBarrier.dstQueueFamilyIndex),
\* the line that closes the image resolver: ill-formed in the same way, and
\* so without effect in every build that has it
CouldUseGlobalBarrierAssert(vkBarrier) == TRUE

\* thsvsGetVulkanMemoryBarrier, bodies of the two loops with their asserts
MemoryBarrierPrevAccessChecked(barrier, i, out) ==
    Asserted(Defined("THSVS_ERROR_CHECK_POTENTIAL_HAZARD") =>
                 PotentialHazardAssert(barrier.pPrevAccesses[i + 1],
                                       barrier.prevAccessCount),
             out, MemoryBarrierPrevAccess(barrier, i, out))

MemoryBarrierNextAccessChecked(barrier, i, out) ==
    Asserted(Defined("THSVS_ERROR_CHECK_POTENTIAL_HAZARD") =>
                 PotentialHazardAssert(barrier.pNextAccesses[i + 1],
                                       barrier.nextAccessCount),
             out, MemoryBarrierNextAccess(barrier, i, out))

\* thsvsGetVulkanBufferMemoryBarrier, bodies of the two loops: the only
\* assert they hold is that of THSVS_ERROR_CHECK_POTENTIAL_HAZARD
BufferBarrierPrevAccessChecked(barrier, i, out) ==
    Asserted(Defined("THSVS_ERROR_CHECK_POTENTIAL_HAZARD") =>
                 PotentialHazardAssert(barrier.pPrevAccesses[i + 1],
                                       barrier.prevAccessCount),
             out, BufferBarrierPrevAccess(barrier, i, out))

BufferBarrierNextAccessChecked(barrier, i, out) ==
    Asserted(Defined("THSVS_ERROR_CHECK_POTENTIAL_HAZARD") =>
                 PotentialHazardAssert(barrier.pNextAccesses[i + 1],
                                       barrier.nextAccessCount),
             out, BufferBarrierNextAccess(barrier, i, out))

\* thsvsGetVulkanImageMemoryBarrier, body of the loop over pPrevAccesses:
\* the hazard assert opens it, the layout assert stands before the store to
\* oldLayout in the branch that keeps the contents, the queue family assert
\* closes it
ImageBarrierPrevAccessChecked(barrier, i, out) ==
    LET prevAccess == barrier.pPrevAccesses[i + 1]
        after      == ImageBarrierPrevAccess(barrier, i, out)
        atLayout   == [after EXCEPT
                          !.pVkBarrier.oldLayout = out.pVkBarrier.oldLayout]
    IN  IF /\ Defined("THSVS_ERROR_CHECK_POTENTIAL_HAZARD")
           /\ ~PotentialHazardAssert(prevAccess, barrier.prevAccessCount)
        THEN [out |-> out, halted |-> TRUE]
        ELSE IF /\ Defined("THSVS_ERROR_CHECK_MIXED_IMAGE_LAYOUT")
                /\ barrier.discardContents # VK_TRUE
                /\ ~MixedImageLayoutAssert(
                        out.pVkBarrier.oldLayout,
                        ImageBarrierPrevLayout(barrier, prevAccess))
        THEN [out |-> atLayout, halted |-> TRUE]
        ELSE Asserted(Defined("THSVS_ERROR_CHECK_COULD_USE_GLOBAL_BARRIER") =>
                          CouldUseGlobalBarrierLoopAssert(after.pVkBarrier),
                      after, after)

\* thsvsGetVulkanImageMemoryBarrier, body of the loop over pNextAccesses
ImageBarrierNextAccessChecked(barrier, i, out) ==
    LET nextAccess == barrier.pNextAccesses[i + 1]
        after      == ImageBarrierNextAccess(barrier, i, out)
        atLayout   == [after EXCEPT
                          !.pVkBarrier.newLayout = out.pVkBarrier.newLayout]
    IN  IF /\ Defined("THSVS_ERROR_CHECK_POTENTIAL_HAZARD")
           /\ ~PotentialHazardAssert(nextAccess, barrier.nextAccessCount)
        THEN [out |-> out, halted |-> TRUE]
        ELSE Asserted(Defined("THSVS_ERROR_CHECK_MIXED_IMAGE_LAYOUT") =>
                          MixedImageLayoutAssert(
                              out.pVkBarrier.newLayout,
                              ImageBarrierNextLayout(barrier, nextAccess)),
                      atLayout, after)

\* the body of a resolver's loop over pPrevAccesses, s naming the resolver
PrevAccessChecked(s, barrier, i, out) ==
    CASE s = "global" -> MemoryBarrierPrevAccessChecked(barrier, i, out)
      [] s = "buffer" -> BufferBarrierPrevAccessChecked(barrier, i, out)
      [] s = "image"  -> ImageBarrierPrevAccessChecked(barrier, i, out)

NextAccessChecked(s, barrier, i, out) ==
    CASE s = "global" -> MemoryBarrierNextAccessChecked(barrier, i, out)
      [] s = "buffer" -> BufferBarrierNextAccessChecked(barrier, i, out)
      [] s = "image"  -> ImageBarrierNextAccessChecked(barrier, i, out)

\* for (int i = 0; i < barrier.prevAccessCount; ++i), left at the first
\* failed assert
RECURSIVE PrevLoopChecked(_, _, _, _)
PrevLoopChecked(s, barrier, i, out) ==
    IF i < barrier.prevAccessCount
    THEN LET step == PrevAccessChecked(s, barrier, i, out)
         IN  IF step.halted THEN step
             ELSE PrevLoopChecked(s, barrier, i + 1, step.out)
    ELSE [out |-> out, halted |-> FALSE]

RECURSIVE NextLoopChecked(_, _, _, _)
NextLoopChecked(s, barrier, i, out) ==
    IF i < barrier.nextAccessCount
    THEN LET step == NextAccessChecked(s, barrier, i, out)
         IN  IF step.halted THEN step
             ELSE NextLoopChecked(s, barrier, i + 1, step.out)
    ELSE [out |-> out, halted |-> FALSE]

\* the stores that precede the loops of resolver s
HeaderOf(s, barrier, out) ==
    CASE s = "global" -> MemoryBarrierHeader(barrier, out)
      [] s = "buffer" -> BufferBarrierHeader(barrier, out)
      [] s = "image"  -> ImageBarrierHeader(barrier, out)

\* a whole resolver as compiled with the macros of defined: the header
\* stores, the two loops and, in the image resolver, the closing assert
ResolveChecked(s, barrier, out) ==
    LET prev == PrevLoopChecked(s, barrier, 0, HeaderOf(s, barrier, out))
        next == NextLoopChecked(s, barrier, 0, prev.out)
    IN  IF prev.halted THEN prev
        ELSE IF next.halted THEN next
        ELSE Asserted(( /\ s = "image"
                        /\ Defined("THSVS_ERROR_CHECK_COULD_USE_GLOBAL_BARRIER") )
                          => CouldUseGlobalBarrierAssert(next.out.pVkBarrier),
                      next.out, next.out)

\* image barriers within one queue family and across two
ImageBarriersAnyQueue ==
    { [b EXCEPT !.dstQueueFamilyIndex = q] : b \in ImageBarriers, q \in {0, 1} }

\* a build with one of the error checks, before the first call.  The build
\* with THSVS_ERROR_CHECK_COULD_USE_GLOBAL_BARRIER is the one that compiles,
\* the one with NDEBUG
InitChecked ==
    /\ defined \in { {macro} : macro \in ErrorChecks }
    /\ halted = FALSE
    /\ NoWrapperCall
    /\ \/ \E b \in GlobalBarriers,
             o \in Storages(VkMemoryBarrier(0), VkMemoryBarrier(7)) :
               Start("global", b, o)
       \/ \E b \in BufferBarriers,
             o \in Storages(VkBufferMemoryBarrier(0), VkBufferMemoryBarrier(7)) :
               Start("buffer", b, o)
       \/ \E b \in ImageBarriersAnyQueue,
             o \in Storages(VkImageMemoryBarrier(0), VkImageMemoryBarrier(7)) :
               Start("image", b, o)

\* a call either returns with its stores made or ends the process at an
\* assert, the stores made so far left in the caller's storage
ReturnOrHalt(r) ==
    /\ entry' = Out
    /\ pSrcStages' = r.out.pSrcStages
    /\ pDstStages' = r.out.pDstStages
    /\ pVkBarrier' = r.out.pVkBarrier
    /\ returned' = ~r.halted
    /\ halted' = r.halted
    /\ UNCHANGED <<shape, thBarrier, defined>>
    /\ UNCHANGED wrapperVars

CallMemoryBarrierChecked ==
    /\ shape = "global"
    /\ ~halted
    /\ ReturnOrHalt(ResolveChecked("global", thBarrier, Out))

CallBufferMemoryBarrierChecked ==
    /\ shape = "buffer"
    /\ ~halted
    /\ ReturnOrHalt(ResolveChecked("buffer", thBarrier, Out))

CallImageMemoryBarrierChecked ==
    /\ shape = "image"
    /\ ~halted
    /\ ReturnOrHalt(ResolveChecked("image", thBarrier, Out))

NextChecked ==
    \/ CallMemoryBarrierChecked
    \/ CallBufferMemoryBarrierChecked
    \/ CallImageMemoryBarrierChecked

SpecChecked == InitChecked /\ [][NextChecked]_vars

(***************************************************************************)
(* Resolver calls made by several threads.  A thread's call is a run of    *)
(* steps: the stores before the loops, one step for each turn of the loop  *)
(* over pPrevAccesses, one for each turn of the loop over pNextAccesses.   *)
(* The steps of different threads interleave in any order.  The output     *)
(* storage lives in one memory that every thread reaches through the       *)
(* pointers it was given; the registry is a const array.                   *)
(***************************************************************************)

Threads == {1, 2}

\* (pPrevAccesses, pNextAccesses) of the barriers the threads resolve
ThreadListPairs ==
    { << << >>, << >> >>,
      << <<THSVS_ACCESS_PRESENT>>, <<THSVS_ACCESS_COLOR_ATTACHMENT_WRITE>> >>,
      << <<THSVS_ACCESS_INDEX_BUFFER, THSVS_ACCESS_COLOR_ATTACHMENT_WRITE>>,
         <<THSVS_ACCESS_PRESENT>> >>,
      << <<THSVS_ACCESS_COLOR_ATTACHMENT_WRITE>>,
         <<THSVS_ACCESS_INDEX_BUFFER, THSVS_ACCESS_PRESENT>> >> }

\* the calls a thread can make: a resolver, the description it passes and
\* the contents of the storage its pointers lead to
ThreadCalls ==
    { [shape |-> "global", thBarrier |-> b, entry |-> o] :
        b \in { g \in GlobalBarriers :
                  <<g.pPrevAccesses, g.pNextAccesses>> \in ThreadListPairs },
        o \in Storages(VkMemoryBarrier(0), VkMemoryBarrier(7)) }
    \cup
    { [shape |-> "buffer", thBarrier |-> b, entry |-> o] :
        b \in { g \in BufferBarriers :
                  /\ <<g.pPrevAccesses, g.pNextAccesses>> \in ThreadListPairs
                  /\ g.dstQueueFamilyIndex = 1 },
        o \in Storages(VkBufferMemoryBarrier(0), VkBufferMemoryBarrier(7)) }
    \cup
    { [shape |-> "image", thBarrier |-> b, entry |-> o] :
        b \in { g \in ImageBarriers :
                  /\ <<g.pPrevAccesses, g.pNextAccesses>> \in ThreadListPairs
                  /\ g.prevLayout = THSVS_IMAGE_LAYOUT_OPTIMAL
                  /\ g.nextLayout = THSVS_IMAGE_LAYOUT_GENERAL
                  /\ g.discardContents = VK_FALSE },
        o \in Storages(VkImageMemoryBarrier(0), VkImageMemoryBarrier(7)) }

\* the body of the loop over pPrevAccesses of resolver s
PrevAccessOf(s, b, i, o) ==
    CASE s = "global" -> MemoryBarrierPrevAccess(b, i, o)
      [] s = "buffer" -> BufferBarrierPrevAccess(b, i, o)
      [] s = "image"  -> ImageBarrierPrevAccess(b, i, o)

\* the body of the loop over pNextAccesses of resolver s
NextAccessOf(s, b, i, o) ==
    CASE s = "global" -> MemoryBarrierNextAccess(b, i, o)
      [] s = "buffer" -> BufferBarrierNextAccess(b, i, o)
      [] s = "image"  -> ImageBarrierNextAccess(b, i, o)

\* one step of a resolver call c on storage o: the position after the step
\* and the storage after it
ResolverStep(c, o) ==
    CASE c.pc = "call" ->
            [pc |-> "prev", i |-> 0, out |-> HeaderOf(c.shape, c.thBarrier, o)]
      [] c.pc = "prev" /\ c.i < c.thBarrier.prevAccessCount ->
            [pc |-> "prev", i |-> c.i + 1,
             out |-> PrevAccessOf(c.shape, c.thBarrier, c.i, o)]
      [] c.pc = "prev" /\ ~(c.i < c.thBarrier.prevAccessCount) ->
            [pc |-> "next", i |-> 0, out |-> o]
      [] c.pc = "next" /\ c.i < c.thBarrier.nextAccessCount ->
            [pc |-> "next", i |-> c.i + 1,
             out |-> NextAccessOf(c.shape, c.thBarrier, c.i, o)]
      [] c.pc = "next" /\ ~(c.i < c.thBarrier.nextAccessCount) ->
            [pc |-> "returned", i |-> 0, out |-> o]

\* thread t takes a step of its call, reading and writing the storage at p
ThreadStepThrough(t, st, p) ==
    LET step == ResolverStep(st.calls[t], st.memory[p])
    IN  [st EXCEPT !.memory[p] = step.out,
                   !.calls[t].pc = step.pc,
                   !.calls[t].i = step.i]

\* A faulty resolver: the results are kept in one static record, the same
\* for every caller
ThreadStep_StaticOutput(t, st) == ThreadStepThrough(t, st, 1)

\* thread t takes a step of its call through the pointers it passed
ThreadStep(t, st) == ThreadStepThrough(t, st, st.calls[t].p)

\* the single caller of the resolvers makes no call
NoDirectCall ==
    /\ shape = "none"
    /\ thBarrier = << >>
    /\ pSrcStages = 0
    /\ pDstStages = 0
    /\ pVkBarrier = << >>
    /\ entry = << >>
    /\ returned = FALSE

\* every thread is about to call a resolver with a description and storage
\* of its own
InitThreads ==
    /\ defined = {}
    /\ halted = FALSE
    /\ NoDirectCall
    /\ call = << >>
    /\ commands = << >>
    /\ scratch = << >>
    /\ \E chosen \in [Threads -> ThreadCalls] :
          threads =
             [memory |-> [p \in Threads |-> chosen[p].entry],
              calls  |-> [t \in Threads |->
                            [shape |-> chosen[t].shape,
                             thBarrier |-> chosen[t].thBarrier,
                             entry |-> chosen[t].entry,
                             p |-> t, pc |-> "call", i |-> 0]]]

\* the scheduler lets a thread that has not returned take its next step
ThreadResolverStep ==
    /\ \E t \in Threads :
          /\ threads.calls[t].pc # "returned"
          /\ threads' = ThreadStep(t, threads)
    /\ UNCHANGED <<shape, thBarrier, pSrcStages, pDstStages, pVkBarrier, entry,
                   returned, defined, halted, call, commands, scratch>>

NextThreads == ThreadResolverStep

SpecThreads == InitThreads /\ [][NextThreads]_vars

(***************************************************************************)
(* The event wrappers thsvsCmdSetEvent and thsvsCmdResetEvent.  A vkCmd*   *)
(* function of Vulkan is modelled by the record of its arguments that the  *)
(* call appends to the commands issued.                                    *)
(***************************************************************************)

\* A faulty loop: only write accesses contribute their stages, as for the
\* access masks of the resolvers
RECURSIVE CmdSetEventLoop_WritesOnly(_, _, _, _)
CmdSetEventLoop_WritesOnly(prevAccessCount, pPrevAccesses, i, stageMask) ==
    IF i < prevAccessCount
    THEN LET prevAccess      == pPrevAccesses[i + 1]
             pPrevAccessInfo == ThsvsAccessMap[prevAccess + 1]
         IN  CmdSetEventLoop_WritesOnly(prevAccessCount, pPrevAccesses, i + 1,
                 IF prevAccess > THSVS_ACCESS_PRESENT
                 THEN BitOr(stageMask, pPrevAccessInfo.stageMask)
                 ELSE stageMask)
    ELSE stageMask

\* thsvsCmdSetEvent, the loop over pPrevAccesses
RECURSIVE CmdSetEventLoop(_, _, _, _)
CmdSetEventLoop(prevAccessCount, pPrevAccesses, i, stageMask) ==
    IF i < prevAccessCount
    THEN LET prevAccess      == pPrevAccesses[i + 1]
             pPrevAccessInfo == ThsvsAccessMap[prevAccess + 1]
         IN  CmdSetEventLoop(prevAccessCount, pPrevAccesses, i + 1,
                             BitOr(stageMask, pPrevAccessInfo.stageMask))
    ELSE stageMask

\* thsvsCmdSetEvent: the commands issued when it returns
thsvsCmdSetEvent(commandBuffer, event, prevAccessCount, pPrevAccesses, issued) ==
    LET stageMask == CmdSetEventLoop(prevAccessCount, pPrevAccesses, 0,
                                     VK_PIPELINE_STAGE_TOP_OF_PIPE_BIT)
    IN  Append(issued, [command       |-> "vkCmdSetEvent",
                        commandBuffer |-> commandBuffer,
                        event         |-> event,
                        stageMask     |-> stageMask])

\* thsvsCmdResetEvent, the loop over pPrevAccesses
RECURSIVE CmdResetEventLoop(_, _, _, _)
CmdResetEventLoop(prevAccessCount, pPrevAccesses, i, stageMask) ==
    IF i < prevAccessCount
    THEN LET prevAccess      == pPrevAccesses[i + 1]
             pPrevAccessInfo == ThsvsAccessMap[prevAccess + 1]
         IN  CmdResetEventLoop(prevAccessCount, pPrevAccesses, i + 1,
                               BitOr(stageMask, pPrevAccessInfo.stageMask))
    ELSE stageMask

\* thsvsCmdResetEvent: the commands issued when it returns
thsvsCmdResetEvent(commandBuffer, event, prevAccessCount, pPrevAccesses, issued) ==
    LET stageMask == CmdResetEventLoop(prevAccessCount, pPrevAccesses, 0,
                                       VK_PIPELINE_STAGE_TOP_OF_PIPE_BIT)
    IN  Append(issued, [command       |-> "vkCmdResetEvent",
                        commandBuffer |-> commandBuffer,
                        event         |-> event,
                        stageMask     |-> stageMask])

\* the access lists handed to the event wrappers: the sampled lists and
\* every declared access type on its own
EventAccessLists ==
    SeqsUpTo(AccessSample, MaxAccessCount) \cup { <<a>> : a \in AccessTypes }

\* the arguments of a call of an event wrapper; the handles are opaque
EventCalls ==
    { [function |-> f, commandBuffer |-> 11, event |-> e,
       prevAccessCount |-> Len(l), pPrevAccesses |-> l, returned |-> FALSE] :
      f \in {"thsvsCmdSetEvent", "thsvsCmdResetEvent"},
      e \in {21, 22},
      l \in EventAccessLists }

\* the caller is about to call an event wrapper on a command buffer that
\* holds no command yet
InitEvents ==
    /\ defined = {}
    /\ halted = FALSE
    /\ NoDirectCall
    /\ threads = << >>
    /\ scratch = << >>
    /\ commands = << >>
    /\ call \in EventCalls

CallCmdSetEvent ==
    /\ call.function = "thsvsCmdSetEvent"
    /\ ~call.returned
    /\ commands' = thsvsCmdSetEvent(call.commandBuffer, call.event,
                                    call.prevAccessCount, call.pPrevAccesses,
                                    commands)
    /\ call' = [call EXCEPT !.returned = TRUE]
    /\ UNCHANGED <<shape, thBarrier, pSrcStages, pDstStages, pVkBarrier, entry,
                   returned, defined, halted, threads, scratch>>

CallCmdResetEvent ==
    /\ call.function = "thsvsCmdResetEvent"
    /\ ~call.returned
    /\ commands' = thsvsCmdResetEvent(call.commandBuffer, call.event,
                                      call.prevAccessCount, call.pPrevAccesses,
                                      commands)
    /\ call' = [call EXCEPT !.returned = TRUE]
    /\ UNCHANGED <<shape, thBarrier, pSrcStages, pDstStages, pVkBarrier, entry,
                   returned, defined, halted, threads, scratch>>

NextEvents ==
    \/ CallCmdSetEvent
    \/ CallCmdResetEvent

SpecEvents == InitEvents /\ [][NextEvents]_vars

(***************************************************************************)
(* The batch wrappers thsvsCmdPipelineBarrier and thsvsCmdWaitEvents.      *)
(* A call runs on the stack of the thread that makes it: the local record  *)
(* memoryBarrier and the arrays obtained with temp_alloc lie below the     *)
(* stack pointer the caller had.  The locals of a call are one record; its *)
(* field heap is the memory the call works on, the records alive at each   *)
(* address, and log lists in order what was done with the arrays.          *)
(***************************************************************************)

\* Most wrapper calls recorded
MaxWrapperCalls == 2

\* sizeof(VkMemoryBarrier), sizeof(VkBufferMemoryBarrier) and
\* sizeof(VkImageMemoryBarrier) where a pointer, a handle and a VkDeviceSize
\* take 8 bytes
SizeofVkMemoryBarrier == 24

SizeofVkBufferMemoryBarrier == 56

SizeofVkImageMemoryBarrier == 72

\* the bytes of stack a thread has; the frames of the batches fit in it
ThreadStackSize == 1024

\* A faulty allocation: the callers are all served from one area instead
\* of their own stacks
StackTop_Static(t) == ThreadStackSize

\* the stack pointer of thread t where it calls a wrapper; the stack grows
\* towards lower addresses and the stacks of two threads do not overlap
StackTop(t) == t * ThreadStackSize

\* the bytes of an array of size bytes at address p
Region(p, size) == p .. (p + size - 1)

\* temp_alloc(size) is alloca(size): the stack pointer of the calling
\* function moves down by size and the space above it is the array (no
\* padding is added here).  Nobody sets its contents: the array holds
\* garbage, the words the stack held there, seen as records
TempAlloc(l, size, garbage) ==
    LET p == l.sp - size
    IN  [l EXCEPT !.sp = p,
                  !.heap = [q \in DOMAIN @ \cup {p} |->
                              IF q = p THEN garbage ELSE @[q]],
                  !.log = Append(@, [op |-> "temp_alloc", p |-> p,
                                     size |-> size, n |-> l.callNo]),
                  !.allocated = p]

\* temp_free(x): the macro is invoked with x; as shipped it expands to
\* nothing
TempFree(l, x) ==
    [l EXCEPT !.log = Append(@, [op |-> "temp_free", p |-> x, n |-> l.callNo])]

\* the locals after a resolver has written the stage masks and the record
\* at element i of the array at p
Resolved(l, kind, p, i, out) ==
    [l EXCEPT !.srcStageMask = out.pSrcStages,
              !.dstStageMask = out.pDstStages,
              !.heap[p][i + 1] = out.pVkBarrier,
              !.log = Append(@, [op |-> "resolve", kind |-> kind, p |-> p,
                                 n |-> l.callNo])]

\* the pointer arguments of a resolver called with &srcStageMask,
\* &dstStageMask and the address of a record
StorageOf(l, record) ==
    [pSrcStages |-> l.srcStageMask, pDstStages |-> l.dstStageMask,
     pVkBarrier |-> record]

\* for (int i = 0; i < bufferBarrierCount; ++i)
RECURSIVE BatchBufferLoop(_, _, _)
BatchBufferLoop(args, i, l) ==
    IF i < args.bufferBarrierCount
    THEN BatchBufferLoop(args, i + 1,
             Resolved(l, "buffer", l.pBufferMemoryBarriers, i,
                 thsvsGetVulkanBufferMemoryBarrier(
                     args.pBufferBarriers[i + 1],
                     StorageOf(l, l.heap[l.pBufferMemoryBarriers][i + 1]))))
    ELSE l

\* for (int i = 0; i < imageBarrierCount; ++i)
RECURSIVE BatchImageLoop(_, _, _)
BatchImageLoop(args, i, l) ==
    IF i < args.imageBarrierCount
    THEN BatchImageLoop(args, i + 1,
             Resolved(l, "image", l.pImageMemoryBarriers, i,
                 thsvsGetVulkanImageMemoryBarrier(
                     args.pImageBarriers[i + 1],
                     StorageOf(l, l.heap[l.pImageMemoryBarriers][i + 1]))))
    ELSE l

\* &memoryBarrier, the address of the local record of a wrapper called with
\* the stack pointer at sp
AddressOfMemoryBarrier(sp) == sp - SizeofVkMemoryBarrier

\* the memory m.heap with the record at address p holding the words w
WithRecordAt(m, p, w) ==
    [q \in DOMAIN m.heap \cup {p} |-> IF q = p THEN <<w>> ELSE m.heap[q]]

\* Faulty declarations: the two stage masks start empty, as the stage words
\* of the tests do
BatchLocals_ZeroStages(args, callNo, sp, garbage, m) ==
    [pc                       |-> "global",
     args                     |-> args,
     callNo                   |-> callNo,
     log                      |-> m.log,
     allocated                |-> NULL,
     sp                       |-> AddressOfMemoryBarrier(sp),
     memoryBarrier            |-> AddressOfMemoryBarrier(sp),
     heap                     |-> WithRecordAt(m, AddressOfMemoryBarrier(sp),
                                               garbage.memoryBarrier),
     srcStageMask             |-> 0,
     dstStageMask             |-> 0,
     memoryBarrierCount       |-> IF args.pGlobalBarrier # << >> THEN 1 ELSE 0,
     pMemoryBarriers          |-> IF args.pGlobalBarrier # << >>
                                  THEN AddressOfMemoryBarrier(sp) ELSE NULL,
     bufferMemoryBarrierCount |-> args.bufferBarrierCount,
     pBufferMemoryBarriers    |-> NULL,
     imageMemoryBarrierCount  |-> args.imageBarrierCount,
     pImageMemoryBarriers     |-> NULL]

\* the declarations of the locals of a call that finds the stack pointer at
\* sp and the memory and the log as m has them.  The local memoryBarrier
\* lies in the memory below sp as an array of one element and is not
\* initialised: it holds the words the stack held there.  pc is the
\* statement the call executes next, memoryBarrier the address of the local
BatchLocals(args, callNo, sp, garbage, m) ==
    [pc                       |-> "global",
     args                     |-> args,
     callNo                   |-> callNo,
     log                      |-> m.log,
     allocated                |-> NULL,
     sp                       |-> AddressOfMemoryBarrier(sp),
     memoryBarrier            |-> AddressOfMemoryBarrier(sp),
     heap                     |-> WithRecordAt(m, AddressOfMemoryBarrier(sp),
                                               garbage.memoryBarrier),
     srcStageMask             |-> VK_PIPELINE_STAGE_TOP_OF_PIPE_BIT,
     dstStageMask             |-> VK_PIPELINE_STAGE_BOTTOM_OF_PIPE_BIT,
     memoryBarrierCount       |-> IF args.pGlobalBarrier # << >> THEN 1 ELSE 0,
     pMemoryBarriers          |-> IF args.pGlobalBarrier # << >>
                                  THEN AddressOfMemoryBarrier(sp) ELSE NULL,
     bufferMemoryBarrierCount |-> args.bufferBarrierCount,
     pBufferMemoryBarriers    |-> NULL,
     imageMemoryBarrierCount  |-> args.imageBarrierCount,
     pImageMemoryBarriers     |-> NULL]

\* if (pGlobalBarrier != NULL)
BatchGlobal(args, l) ==
    IF args.pGlobalBarrier # << >>
    THEN Resolved(l, "global", l.pMemoryBarriers, 0,
             thsvsGetVulkanMemoryBarrier(args.pGlobalBarrier[1],
                                         StorageOf(l, l.heap[l.pMemoryBarriers][1])))
    ELSE l

\* if (bufferBarrierCount > 0)
BatchBuffers(args, garbage, l) ==
    IF args.bufferBarrierCount > 0
    THEN LET a == TempAlloc(l, SizeofVkBufferMemoryBarrier
                                   * l.bufferMemoryBarrierCount,
                            SubSeq(garbage.pBufferMemoryBarriers, 1,
                                   l.bufferMemoryBarrierCount))
         IN  BatchBufferLoop(args, 0,
                             [a EXCEPT !.pBufferMemoryBarriers = a.allocated])
    ELSE l

\* if (imageBarrierCount > 0)
BatchImages(args, garbage, l) ==
    IF args.imageBarrierCount > 0
    THEN LET a == TempAlloc(l, SizeofVkImageMemoryBarrier
                                   * l.imageMemoryBarrierCount,
                            SubSeq(garbage.pImageMemoryBarriers, 1,
                                   l.imageMemoryBarrierCount))
         IN  BatchImageLoop(args, 0,
                            [a EXCEPT !.pImageMemoryBarriers = a.allocated])
    ELSE l

\* the array of count elements a Vulkan command reads through p
ReadThrough(l, p, count) ==
    IF count = 0 THEN << >> ELSE [k \in 1 .. count |-> l.heap[p][k]]

\* the barrier arguments both Vulkan commands take, with the elements read
\* through the three pointers
BarrierArguments(l) ==
    [srcStageMask             |-> l.srcStageMask,
     dstStageMask             |-> l.dstStageMask,
     memoryBarrierCount       |-> l.memoryBarrierCount,
     pMemoryBarriers          |-> ReadThrough(l, l.pMemoryBarriers,
                                              l.memoryBarrierCount),
     bufferMemoryBarrierCount |-> l.bufferMemoryBarrierCount,
     pBufferMemoryBarriers    |-> ReadThrough(l, l.pBufferMemoryBarriers,
                                              l.bufferMemoryBarrierCount),
     imageMemoryBarrierCount  |-> l.imageMemoryBarrierCount,
     pImageMemoryBarriers     |-> ReadThrough(l, l.pImageMemoryBarriers,
                                              l.imageMemoryBarrierCount)]

\* the log after a Vulkan command was handed the two temp_alloc'd pointers
Issued(l, command) ==
    [l EXCEPT !.log = Append(@, [op |-> command,
                                 p  |-> {l.pBufferMemoryBarriers,
                                         l.pImageMemoryBarriers} \ {NULL},
                                 n  |-> l.callNo])]

\* the locals when a wrapper reaches its Vulkan command
BatchResolved(args, callNo, sp, garbage, m) ==
    BatchImages(args, garbage,
        BatchBuffers(args, garbage,
            BatchGlobal(args, BatchLocals(args, callNo, sp, garbage, m))))

\* the two temp_free lines that end both wrappers
BatchFreed(l) ==
    TempFree(TempFree(l, l.pBufferMemoryBarriers), l.pImageMemoryBarriers)

\* the closing brace of a wrapper: the function returns, its frame is popped
\* and memoryBarrier and the arrays alloca gave it are no more
BatchReturned(l) ==
    [l EXCEPT !.heap = [q \in DOMAIN @ \ {l.memoryBarrier, l.pBufferMemoryBarriers,
                                         l.pImageMemoryBarriers} |-> @[q]]]

\* the vkCmdPipelineBarrier call of thsvsCmdPipelineBarrier
PipelineBarrierCommand(args, l) ==
    [command         |-> "vkCmdPipelineBarrier",
     commandBuffer   |-> args.commandBuffer,
     dependencyFlags |-> 0,
     barriers        |-> BarrierArguments(l)]

\* the vkCmdWaitEvents call of thsvsCmdWaitEvents
WaitEventsCommand(args, l) ==
    [command       |-> "vkCmdWaitEvents",
     commandBuffer |-> args.commandBuffer,
     eventCount    |-> args.eventCount,
     pEvents       |-> args.pEvents,
     barriers      |-> BarrierArguments(l)]

\* the memory and the log a call finds when no other call is in progress
NoFrames(log) == [heap |-> << >>, log |-> log]

\* thsvsCmdPipelineBarrier called with the stack pointer at sp: the commands
\* issued and the log when it returns
thsvsCmdPipelineBarrier(args, sp, garbage, issued, log) ==
    LET l == BatchResolved(args, Len(issued) + 1, sp, garbage, NoFrames(log))
    IN  [commands |-> Append(issued, PipelineBarrierCommand(args, l)),
         log |-> BatchReturned(BatchFreed(Issued(l, "vkCmdPipelineBarrier"))).log]

\* thsvsCmdWaitEvents called with the stack pointer at sp: the commands
\* issued and the log when it returns
thsvsCmdWaitEvents(args, sp, garbage, issued, log) ==
    LET l == BatchResolved(args, Len(issued) + 1, sp, garbage, NoFrames(log))
    IN  [commands |-> Append(issued, WaitEventsCommand(args, l)),
         log |-> BatchReturned(BatchFreed(Issued(l, "vkCmdWaitEvents"))).log]

\* the barriers of the batches: a global barrier without any access and one
\* with accesses, two buffer barriers, the first without any access, and two
\* image barriers.  The image barriers list an access on both sides, so
\* that the resolver stores both layouts of every record of the arrays
BatchGlobalBarriers ==
    << [prevAccessCount |-> 0, pPrevAccesses |-> << >>,
        nextAccessCount |-> 0, pNextAccesses |-> << >>],
       [prevAccessCount |-> 1, pPrevAccesses |-> <<THSVS_ACCESS_COMPUTE_SHADER_WRITE>>,
        nextAccessCount |-> 1, pNextAccesses |-> <<THSVS_ACCESS_INDIRECT_BUFFER>>] >>

BatchBufferBarriers ==
    << [prevAccessCount |-> 0, pPrevAccesses |-> << >>,
        nextAccessCount |-> 0, pNextAccesses |-> << >>,
        srcQueueFamilyIndex |-> 0, dstQueueFamilyIndex |-> 0,
        buffer |-> 8, offset |-> 0, size |-> 32],
       [prevAccessCount |-> 1, pPrevAccesses |-> <<THSVS_ACCESS_TRANSFER_WRITE>>,
        nextAccessCount |-> 2,
        pNextAccesses |-> <<THSVS_ACCESS_VERTEX_BUFFER, THSVS_ACCESS_INDEX_BUFFER>>,
        srcQueueFamilyIndex |-> 0, dstQueueFamilyIndex |-> 1,
        buffer |-> 5, offset |-> 16, size |-> 64] >>

BatchImageBarriers ==
    << [prevAccessCount |-> 1, pPrevAccesses |-> <<THSVS_ACCESS_COLOR_ATTACHMENT_WRITE>>,
        nextAccessCount |-> 1, pNextAccesses |-> <<THSVS_ACCESS_PRESENT>>,
        prevLayout |-> THSVS_IMAGE_LAYOUT_OPTIMAL,
        nextLayout |-> THSVS_IMAGE_LAYOUT_OPTIMAL, discardContents |-> VK_FALSE,
        srcQueueFamilyIndex |-> 0, dstQueueFamilyIndex |-> 1,
        image |-> 6, subresourceRange |-> <<1, 0, 1, 0, 1>>],
       [prevAccessCount |-> 1, pPrevAccesses |-> <<THSVS_ACCESS_TRANSFER_WRITE>>,
        nextAccessCount |-> 2,
        pNextAccesses |-> <<THSVS_ACCESS_FRAGMENT_SHADER_READ_SAMPLED_IMAGE_OR_UNIFORM_TEXEL_BUFFER,
                            THSVS_ACCESS_COMPUTE_SHADER_READ_SAMPLED_IMAGE_OR_UNIFORM_TEXEL_BUFFER>>,
        prevLayout |-> THSVS_IMAGE_LAYOUT_OPTIMAL,
        nextLayout |-> THSVS_IMAGE_LAYOUT_GENERAL, discardContents |-> VK_TRUE,
        srcQueueFamilyIndex |-> 0, dstQueueFamilyIndex |-> 0,
        image |-> 9, subresourceRange |-> <<1, 0, 1, 0, 1>>] >>

\* the arrays of barriers a batch can hold: none, the first of a pair, and
\* the two in the other order
BatchArrays(pair) ==
    << << >>, <<pair[1]>>, <<pair[2], pair[1]>> >>

\* the batches the wrappers are called with: the global barrier (0 for
\* NULL), the number of buffer barriers and the number of image barriers
BatchShapes ==
    { <<0, 0, 0>>, <<1, 0, 0>>, <<1, 1, 0>>, <<2, 0, 0>>, <<0, 2, 0>>,
      <<0, 0, 1>>, <<2, 2, 1>>, <<0, 0, 2>>, <<2, 2, 2>> }

\* the arguments of a call of a batch wrapper for the batch of shape s;
\* pGlobalBarrier is the empty array for NULL and an array of one
\* description otherwise
BatchCallOf(f, s) ==
    [function |-> f, commandBuffer |-> 11,
     eventCount |-> IF f = "thsvsCmdWaitEvents" THEN 1 ELSE 0,
     pEvents |-> IF f = "thsvsCmdWaitEvents" THEN <<21>> ELSE << >>,
     pGlobalBarrier |-> IF s[1] = 0 THEN << >> ELSE <<BatchGlobalBarriers[s[1]]>>,
     bufferBarrierCount |-> s[2],
     pBufferBarriers |-> BatchArrays(BatchBufferBarriers)[s[2] + 1],
     imageBarrierCount |-> s[3],
     pImageBarriers |-> BatchArrays(BatchImageBarriers)[s[3] + 1]]

BatchCalls ==
    { BatchCallOf(f, s) : f \in {"thsvsCmdPipelineBarrier", "thsvsCmdWaitEvents"},
                          s \in BatchShapes }

\* what the stack can hold where the frame of a wrapper lands, nobody having
\* set it for this call: zeroed words; the word 7 everywhere; the records an
\* earlier call of a wrapper left in the same place; words left by other
\* frames, different from field to field and from element to element.  The
\* resolvers store every field of the records of the batches above before
\* any of them is read, so these stand for whatever the stack holds
StackContents ==
    { [memoryBarrier         |-> VkMemoryBarrier(0),
       pBufferMemoryBarriers |-> <<VkBufferMemoryBarrier(0), VkBufferMemoryBarrier(0)>>,
       pImageMemoryBarriers  |-> <<VkImageMemoryBarrier(0), VkImageMemoryBarrier(0)>>],
      [memoryBarrier         |-> VkMemoryBarrier(7),
       pBufferMemoryBarriers |-> <<VkBufferMemoryBarrier(7), VkBufferMemoryBarrier(7)>>,
       pImageMemoryBarriers  |-> <<VkImageMemoryBarrier(7), VkImageMemoryBarrier(7)>>],
      [memoryBarrier         |->
           thsvsGetVulkanMemoryBarrier(
               BatchGlobalBarriers[2],
               [pSrcStages |-> 0, pDstStages |-> 0,
                pVkBarrier |-> VkMemoryBarrier(0)]).pVkBarrier,
       pBufferMemoryBarriers |->
           [k \in 1 .. 2 |->
               thsvsGetVulkanBufferMemoryBarrier(
                   BatchBufferBarriers[k],
                   [pSrcStages |-> 0, pDstStages |-> 0,
                    pVkBarrier |-> VkBufferMemoryBarrier(0)]).pVkBarrier],
       pImageMemoryBarriers  |->
           [k \in 1 .. 2 |->
               thsvsGetVulkanImageMemoryBarrier(
                   BatchImageBarriers[k],
                   [pSrcStages |-> 0, pDstStages |-> 0,
                    pVkBarrier |-> VkImageMemoryBarrier(0)]).pVkBarrier]],
      [memoryBarrier         |->
           [sType |-> 32765, pNext |-> 1, srcAccessMask |-> 0, dstAccessMask |-> 6],
       pBufferMemoryBarriers |->
           << [sType |-> 21988, pNext |-> 0, srcAccessMask |-> 32519,
               dstAccessMask |-> 1, srcQueueFamilyIndex |-> 6,
               dstQueueFamilyIndex |-> 0, buffer |-> 32765, offset |-> 1,
               size |-> 0],
              [sType |-> 0, pNext |-> 32765, srcAccessMask |-> 1,
               dstAccessMask |-> 0, srcQueueFamilyIndex |-> 0,
               dstQueueFamilyIndex |-> 21988, buffer |-> 6, offset |-> 0,
               size |-> 32519] >>,
       pImageMemoryBarriers  |->
           << [sType |-> 32519, pNext |-> 21988, srcAccessMask |-> 0,
               dstAccessMask |-> 1, oldLayout |-> 11, newLayout |-> 0,
               srcQueueFamilyIndex |-> 32765, dstQueueFamilyIndex |-> 32765,
               image |-> 1, subresourceRange |-> <<6, 32765, 0, 32765, 1>>],
              [sType |-> 1, pNext |-> 1, srcAccessMask |-> 32519,
               dstAccessMask |-> 32519, oldLayout |-> 32767, newLayout |-> 1,
               srcQueueFamilyIndex |-> 0, dstQueueFamilyIndex |-> 0,
               image |-> 1, subresourceRange |-> <<6, 0, 21988, 0, 32765>>] >>] }

\* a command buffer that holds no command yet
InitBatch ==
    /\ defined = {}
    /\ halted = FALSE
    /\ NoDirectCall
    /\ threads = << >>
    /\ call = << >>
    /\ commands = << >>
    /\ scratch = << >>

\* what a returned wrapper call leaves
BatchReturn(args, r) ==
    /\ call' = args
    /\ commands' = r.commands
    /\ scratch' = r.log
    /\ UNCHANGED <<shape, thBarrier, pSrcStages, pDstStages, pVkBarrier, entry,
                   returned, defined, halted, threads>>

\* the one thread that records calls thsvsCmdPipelineBarrier
CallCmdPipelineBarrier ==
    /\ Len(commands) < MaxWrapperCalls
    /\ \E args \in BatchCalls, garbage \in StackContents :
          /\ args.function = "thsvsCmdPipelineBarrier"
          /\ BatchReturn(args,
                 thsvsCmdPipelineBarrier(args, StackTop(1), garbage,
                                         commands, scratch))

\* the one thread that records calls thsvsCmdWaitEvents
CallCmdWaitEvents ==
    /\ Len(commands) < MaxWrapperCalls
    /\ \E args \in BatchCalls, garbage \in StackContents :
          /\ args.function = "thsvsCmdWaitEvents"
          /\ BatchReturn(args,
                 thsvsCmdWaitEvents(args, StackTop(1), garbage,
                                    commands, scratch))

NextBatch ==
    \/ CallCmdPipelineBarrier
    \/ CallCmdWaitEvents

SpecBatch == InitBatch /\ [][NextBatch]_vars

(***************************************************************************)
(* Wrapper calls made by several threads, each recording into a command    *)
(* buffer of its own.  A call is a run of steps: the declarations with the *)
(* global barrier, the buffer barriers, the image barriers, the Vulkan     *)
(* command, and the two temp_free lines with the return.  The steps of     *)
(* different threads interleave in any order on one memory.  call lists    *)
(* the arguments of the calls in the order they were made and scratch the  *)
(* log of each of them.                                                    *)
(***************************************************************************)

\* a thread that is in no wrapper
Idle == [pc |-> "idle"]

\* the calls the threads make, thread t recording into command buffer
\* 10 + t: a batch of a global barrier alone, one with buffer barriers
\* only, and batches with buffer and image barriers
ThreadBatchCalls(t) ==
    { [c EXCEPT !.commandBuffer = 10 + t] :
        c \in { BatchCallOf("thsvsCmdWaitEvents", <<1, 0, 0>>),
                BatchCallOf("thsvsCmdPipelineBarrier", <<1, 1, 0>>),
                BatchCallOf("thsvsCmdPipelineBarrier", <<2, 2, 1>>),
                BatchCallOf("thsvsCmdWaitEvents", <<2, 1, 2>>) } }

\* the locals l of a call with the memory and the log it works on
InMemory(l, heap, log) == [l EXCEPT !.heap = heap, !.log = log]

\* the next step of the call with locals l, garbage being what the stack
\* holds where the step obtains an array
WrapperStep(l, garbage) ==
    CASE l.pc = "global" ->
            [BatchGlobal(l.args, l) EXCEPT !.pc = "buffers"]
      [] l.pc = "buffers" ->
            [BatchBuffers(l.args, garbage, l) EXCEPT !.pc = "images"]
      [] l.pc = "images" ->
            [BatchImages(l.args, garbage, l) EXCEPT !.pc = "command"]
      [] l.pc = "command" /\ l.args.function = "thsvsCmdPipelineBarrier" ->
            [Issued(l, "vkCmdPipelineBarrier") EXCEPT !.pc = "free"]
      [] l.pc = "command" /\ l.args.function = "thsvsCmdWaitEvents" ->
            [Issued(l, "vkCmdWaitEvents") EXCEPT !.pc = "free"]
      [] l.pc = "free" ->
            [BatchReturned(BatchFreed(l)) EXCEPT !.pc = "idle"]

\* the command the step of the call with locals l issues, if it issues one
WrapperCommand(l) ==
    IF l.pc # "command" THEN << >>
    ELSE IF l.args.function = "thsvsCmdPipelineBarrier"
         THEN <<PipelineBarrierCommand(l.args, l)>>
         ELSE <<WaitEventsCommand(l.args, l)>>

\* no thread is in a wrapper
InitBatchThreads ==
    /\ defined = {}
    /\ halted = FALSE
    /\ NoDirectCall
    /\ threads = [memory |-> << >>, calls |-> [t \in Threads |-> Idle]]
    /\ call = << >>
    /\ commands = << >>
    /\ scratch = << >>

\* a thread that is in no wrapper calls one: the declarations are executed
\* and the global barrier is resolved
CallWrapper ==
    /\ Len(call) < MaxWrapperCalls
    /\ \E t \in Threads :
          /\ threads.calls[t].pc = "idle"
          /\ \E args \in ThreadBatchCalls(t), garbage \in StackContents :
                LET l == WrapperStep(
                             BatchLocals(args, Len(call) + 1, StackTop(t), garbage,
                                         [heap |-> threads.memory, log |-> << >>]),
                             garbage)
                IN  /\ threads' = [memory |-> l.heap,
                                   calls  |-> [threads.calls EXCEPT
                                                 ![t] = InMemory(l, << >>, << >>)]]
                    /\ call' = Append(call, args)
                    /\ scratch' = Append(scratch, l.log)
    /\ UNCHANGED <<shape, thBarrier, pSrcStages, pDstStages, pVkBarrier, entry,
                   returned, defined, halted, commands>>

\* the scheduler lets a thread that is in a wrapper take its next step
WrapperTakesStep ==
    /\ \E t \in Threads :
          /\ threads.calls[t].pc # "idle"
          /\ \E garbage \in StackContents :
                LET l    == InMemory(threads.calls[t], threads.memory,
                                     scratch[threads.calls[t].callNo])
                    step == WrapperStep(l, garbage)
                IN  /\ threads' =
                           [memory |-> step.heap,
                            calls  |-> [threads.calls EXCEPT
                                          ![t] = IF step.pc = "idle" THEN Idle
                                                 ELSE InMemory(step, << >>, << >>)]]
                    /\ commands' = commands \o WrapperCommand(l)
                    /\ scratch' = [scratch EXCEPT ![l.callNo] = step.log]
    /\ UNCHANGED <<shape, thBarrier, pSrcStages, pDstStages, pVkBarrier, entry,
                   returned, defined, halted, call>>

NextBatchThreads ==
    \/ CallWrapper
    \/ WrapperTakesStep

SpecBatchThreads == InitBatchThreads /\ [][NextBatchThreads]_vars

(***************************************************************************)
(* What the resolved masks and layouts are compared with: the bits of a    *)
(* flag word, read off by division, and the registry entries of a list.    *)
(***************************************************************************)

\* the set of bit positions set in a flag word
RECURSIVE BitsFrom(_, _)
BitsFrom(x, b) ==
    IF x = 0 THEN {}
    ELSE (IF x % 2 = 1 THEN {b} ELSE {}) \cup BitsFrom(x \div 2, b + 1)

Bits(x) == BitsFrom(x, 0)

Range(s) == { s[i] : i \in 1 .. Len(s) }

IsReadClass(a) == a <= THSVS_ACCESS_PRESENT

StageBitsOf(accesses) ==
    UNION { Bits(ThsvsAccessMap[a + 1].stageMask) : a \in Range(accesses) }

AccessBitsOf(accesses) ==
    UNION { Bits(ThsvsAccessMap[a + 1].accessMask) : a \in Range(accesses) }

WriteAccessBitsOf(accesses) ==
    UNION { Bits(ThsvsAccessMap[a + 1].accessMask) :
            a \in { x \in Range(accesses) : ~IsReadClass(x) } }

ZeroStages == entry.pSrcStages = 0 /\ entry.pDstStages = 0

\* C1: a resolver called with *pSrcStages = *pDstStages = 0 returns in
\* *pSrcStages the OR of the registry stage masks of the previous accesses
\* and in *pDstStages the OR of those of the next accesses
C1_StageMasksAreUnions ==
    (returned /\ ZeroStages) =>
        /\ Bits(pSrcStages) = StageBitsOf(thBarrier.pPrevAccesses)
        /\ Bits(pDstStages) = StageBitsOf(thBarrier.pNextAccesses)

\* the buffer resolver has folded the two next accesses of the test program's
\* index-buffer and uniform-buffer barrier into one destination stage mask
C1_Witness ==
    /\ returned /\ ZeroStages /\ shape = "buffer"
    /\ thBarrier.pPrevAccesses = <<THSVS_ACCESS_COMPUTE_SHADER_WRITE>>
    /\ thBarrier.pNextAccesses =
           <<THSVS_ACCESS_INDEX_BUFFER, THSVS_ACCESS_COMPUTE_SHADER_READ_UNIFORM_BUFFER>>
    /\ pSrcStages = VK_PIPELINE_STAGE_COMPUTE_SHADER_BIT
    /\ pDstStages = VK_PIPELINE_STAGE_VERTEX_INPUT_BIT + VK_PIPELINE_STAGE_COMPUTE_SHADER_BIT

\* C2: srcAccessMask is the OR of the registry access masks of exactly the
\* previous accesses above THSVS_ACCESS_PRESENT; a read-class previous access
\* gives its stage bits and no access bit (a lone compute-shader read gives 0)
C2_SrcAccessMaskFromWritesOnly ==
    returned =>
        /\ Bits(pVkBarrier.srcAccessMask) = WriteAccessBitsOf(thBarrier.pPrevAccesses)
        /\ StageBitsOf(thBarrier.pPrevAccesses) \subseteq Bits(pSrcStages)
        /\ thBarrier.pPrevAccesses = <<THSVS_ACCESS_COMPUTE_SHADER_READ_OTHER>>
               => pVkBarrier.srcAccessMask = 0

\* the image resolver has resolved a read listed with a write: both stages
\* are in the source stage mask, only the write's access bit in srcAccessMask,
\* and the record held other access bits before the call
C2_Witness ==
    /\ returned /\ ZeroStages /\ shape = "image"
    /\ thBarrier.pPrevAccesses =
           <<THSVS_ACCESS_INDEX_BUFFER, THSVS_ACCESS_COLOR_ATTACHMENT_WRITE>>
    /\ entry.pVkBarrier.srcAccessMask # 0
    /\ pSrcStages = VK_PIPELINE_STAGE_VERTEX_INPUT_BIT
                    + VK_PIPELINE_STAGE_COLOR_ATTACHMENT_OUTPUT_BIT
    /\ pVkBarrier.srcAccessMask = VK_ACCESS_COLOR_ATTACHMENT_WRITE_BIT

\* C3: dstAccessMask is the OR of the registry access masks of every next
\* access, whatever their class and whatever the previous accesses; a
\* compute-shader read followed by a compute-shader write gives
\* srcAccessMask 0, dstAccessMask SHADER_WRITE and both stages COMPUTE_SHADER
C3_DstAccessMaskUnfiltered ==
    returned =>
        /\ Bits(pVkBarrier.dstAccessMask) = AccessBitsOf(thBarrier.pNextAccesses)
        /\ ( /\ ZeroStages
             /\ thBarrier.pPrevAccesses = <<THSVS_ACCESS_COMPUTE_SHADER_READ_OTHER>>
             /\ thBarrier.pNextAccesses = <<THSVS_ACCESS_COMPUTE_SHADER_WRITE>> )
           => /\ pVkBarrier.srcAccessMask = 0
              /\ pVkBarrier.dstAccessMask = VK_ACCESS_SHADER_WRITE_BIT
              /\ pSrcStages = VK_PIPELINE_STAGE_COMPUTE_SHADER_BIT
              /\ pDstStages = VK_PIPELINE_STAGE_COMPUTE_SHADER_BIT

\* the global resolver has resolved the read-then-write barrier of the test
\* program and granted the write its access bit
C3_Witness ==
    /\ returned /\ ZeroStages /\ shape = "global"
    /\ thBarrier.pPrevAccesses = <<THSVS_ACCESS_COMPUTE_SHADER_READ_OTHER>>
    /\ thBarrier.pNextAccesses = <<THSVS_ACCESS_COMPUTE_SHADER_WRITE>>
    /\ pVkBarrier.srcAccessMask = 0
    /\ pVkBarrier.dstAccessMask = VK_ACCESS_SHADER_WRITE_BIT

\* C4: when every previous access is read class the barrier is an execution
\* dependency only, srcAccessMask = dstAccessMask = 0, as the test program
\* expects of its read-then-write barriers
C4_ReadClassPrevGivesNoAccessMask ==
    ( /\ returned
      /\ thBarrier.prevAccessCount > 0
      /\ \A a \in Range(thBarrier.pPrevAccesses) : IsReadClass(a) ) =>
        /\ pVkBarrier.srcAccessMask = 0
        /\ pVkBarrier.dstAccessMask = 0

(***************************************************************************)
(* Calls compared with the call of the state: the resolver of the state's  *)
(* shape applied to a reordered description or to other output storage.    *)
(***************************************************************************)

\* the resolver the caller of shape s uses
Resolve(s, b, o) ==
    CASE s = "global" -> thsvsGetVulkanMemoryBarrier(b, o)
      [] s = "buffer" -> thsvsGetVulkanBufferMemoryBarrier(b, o)
      [] s = "image"  -> thsvsGetVulkanImageMemoryBarrier(b, o)

\* every reordering of a list
Reorderings(s) ==
    { [i \in 1 .. Len(s) |-> s[f[i]]] :
      f \in { g \in [1 .. Len(s) -> 1 .. Len(s)] :
              \A i, j \in 1 .. Len(s) : g[i] = g[j] => i = j } }

\* the description of the state with its lists reordered as p and n
Reordered(p, n) == [thBarrier EXCEPT !.pPrevAccesses = p, !.pNextAccesses = n]

Masks(o) ==
    <<o.pSrcStages, o.pDstStages, o.pVkBarrier.srcAccessMask, o.pVkBarrier.dstAccessMask>>

\* C5: for each of the three resolvers, a call with pPrevAccesses or with
\* pNextAccesses reordered in any way, on the storage the call of the state
\* was given, returns the same two stage masks and the same two access masks
C5_MasksOrderIndependent ==
    returned =>
        /\ \A p \in Reorderings(thBarrier.pPrevAccesses) :
               Masks(Resolve(shape, Reordered(p, thBarrier.pNextAccesses), entry))
                   = Masks(Out)
        /\ \A n \in Reorderings(thBarrier.pNextAccesses) :
               Masks(Resolve(shape, Reordered(thBarrier.pPrevAccesses, n), entry))
                   = Masks(Out)

\* the global resolver has resolved a list of two different previous
\* accesses, a read and a write, whose reordering is another list
C5_Witness ==
    /\ returned /\ ZeroStages /\ shape = "global"
    /\ thBarrier.pPrevAccesses =
           <<THSVS_ACCESS_INDEX_BUFFER, THSVS_ACCESS_COLOR_ATTACHMENT_WRITE>>
    /\ thBarrier.pNextAccesses = <<THSVS_ACCESS_INDEX_BUFFER>>
    /\ Cardinality(Reorderings(thBarrier.pPrevAccesses)) = 2
    /\ pSrcStages = VK_PIPELINE_STAGE_VERTEX_INPUT_BIT
                    + VK_PIPELINE_STAGE_COLOR_ATTACHMENT_OUTPUT_BIT
    /\ pVkBarrier.srcAccessMask = VK_ACCESS_COLOR_ATTACHMENT_WRITE_BIT
    /\ pVkBarrier.dstAccessMask = VK_ACCESS_INDEX_READ_BIT

\* the layout the description of the layout options gives one access:
\* OPTIMAL the layout of its registry entry, GENERAL the general layout except
\* for presentation, GENERAL_AND_PRESENTATION the shared presentable layout
ModeTableLayout(mode, a) ==
    IF mode = THSVS_IMAGE_LAYOUT_OPTIMAL
    THEN ThsvsAccessMap[a + 1].imageLayout
    ELSE IF mode = THSVS_IMAGE_LAYOUT_GENERAL
         THEN IF a = THSVS_ACCESS_PRESENT
              THEN VK_IMAGE_LAYOUT_PRESENT_SRC_KHR
              ELSE VK_IMAGE_LAYOUT_GENERAL
         ELSE VK_IMAGE_LAYOUT_SHARED_PRESENT_KHR

\* every entry of a list has the same layout under a mode
OneLayout(mode, accesses) ==
    \A a, b \in Range(accesses) : ModeTableLayout(mode, a) = ModeTableLayout(mode, b)

Layouts(o) == <<o.pVkBarrier.oldLayout, o.pVkBarrier.newLayout>>

\* C6 as claimed: for the image resolver, a call with pPrevAccesses or with
\* pNextAccesses reordered in any way returns the same oldLayout and the same
\* newLayout, for every layout mode and either value of discardContents
C6_LayoutsOrderIndependent ==
    (returned /\ shape = "image") =>
        /\ \A p \in Reorderings(thBarrier.pPrevAccesses) :
               Layouts(Resolve(shape, Reordered(p, thBarrier.pNextAccesses), entry))
                   = Layouts(Out)
        /\ \A n \in Reorderings(thBarrier.pNextAccesses) :
               Layouts(Resolve(shape, Reordered(thBarrier.pPrevAccesses, n), entry))
                   = Layouts(Out)

\* C6 as amended: reordering pPrevAccesses leaves oldLayout unchanged when
\* discardContents is set or every previous access has one layout under
\* prevLayout, and reordering pNextAccesses leaves newLayout unchanged when
\* every next access has one layout under nextLayout
C6_ConsistentLayoutsOrderIndependent ==
    (returned /\ shape = "image") =>
        /\ ( \/ thBarrier.discardContents = VK_TRUE
             \/ OneLayout(thBarrier.prevLayout, thBarrier.pPrevAccesses) )
           => \A p \in Reorderings(thBarrier.pPrevAccesses) :
                  Layouts(Resolve(shape, Reordered(p, thBarrier.pNextAccesses), entry))
                      = Layouts(Out)
        /\ OneLayout(thBarrier.nextLayout, thBarrier.pNextAccesses)
           => \A n \in Reorderings(thBarrier.pNextAccesses) :
                  Layouts(Resolve(shape, Reordered(thBarrier.pPrevAccesses, n), entry))
                      = Layouts(Out)

\* the image resolver has resolved, without discarding, two different previous
\* accesses that share the general layout, on a record that held another
C6_Witness ==
    /\ returned /\ shape = "image"
    /\ thBarrier.discardContents = VK_FALSE
    /\ thBarrier.prevLayout = THSVS_IMAGE_LAYOUT_GENERAL
    /\ thBarrier.pPrevAccesses =
           <<THSVS_ACCESS_INDEX_BUFFER, THSVS_ACCESS_COLOR_ATTACHMENT_WRITE>>
    /\ Cardinality(Reorderings(thBarrier.pPrevAccesses)) = 2
    /\ thBarrier.nextLayout = THSVS_IMAGE_LAYOUT_GENERAL_AND_PRESENTATION
    /\ thBarrier.pNextAccesses = <<THSVS_ACCESS_PRESENT>>
    /\ entry.pVkBarrier.oldLayout # VK_IMAGE_LAYOUT_GENERAL
    /\ pVkBarrier.oldLayout = VK_IMAGE_LAYOUT_GENERAL
    /\ pVkBarrier.newLayout = VK_IMAGE_LAYOUT_SHARED_PRESENT_KHR

\* output storage another caller of the same resolver could hand over: the
\* stage words zero or preset as by thsvsCmdPipelineBarrier, the record zeroed
\* or not initialised
AnyStorage(s) ==
    { [pSrcStages |-> w[1], pDstStages |-> w[2], pVkBarrier |-> r] :
      w \in { <<0, 0>>,
              <<VK_PIPELINE_STAGE_TOP_OF_PIPE_BIT, VK_PIPELINE_STAGE_BOTTOM_OF_PIPE_BIT>> },
      r \in CASE s = "global" -> {VkMemoryBarrier(0), VkMemoryBarrier(7)}
              [] s = "buffer" -> {VkBufferMemoryBarrier(0), VkBufferMemoryBarrier(7)}
              [] s = "image"  -> {VkImageMemoryBarrier(0), VkImageMemoryBarrier(7)} }

\* the resolved output: the four masks and, for an image, the two layouts
ResolvedOutput(s, o) ==
    IF s = "image"
    THEN Masks(o) \o <<o.pVkBarrier.oldLayout, o.pVkBarrier.newLayout>>
    ELSE Masks(o)

\* C7 as claimed: a second call with the same description returns the same
\* stage masks, access masks and (for an image) layouts whatever *pSrcStages,
\* *pDstStages and *pVkBarrier held before it, empty access lists included
C7_OutputIndependentOfStorage ==
    returned =>
        \A o \in AnyStorage(shape) :
            ResolvedOutput(shape, Resolve(shape, thBarrier, o)) = ResolvedOutput(shape, Out)

\* C7 as amended: whatever the storage held, a second call with the same
\* description returns the same two access masks; it returns the same stage
\* mask whenever the stage word held the same value before both calls; and it
\* returns the same layout for a side that lists an access, while the layout
\* of a side that lists none is what the record held before the call
C7_OutputDependsOnStageWordsOnly ==
    returned =>
        \A o \in AnyStorage(shape) :
            LET r == Resolve(shape, thBarrier, o)
            IN  /\ r.pVkBarrier.srcAccessMask = pVkBarrier.srcAccessMask
                /\ r.pVkBarrier.dstAccessMask = pVkBarrier.dstAccessMask
                /\ o.pSrcStages = entry.pSrcStages => r.pSrcStages = pSrcStages
                /\ o.pDstStages = entry.pDstStages => r.pDstStages = pDstStages
                /\ shape = "image" =>
                    /\ r.pVkBarrier.oldLayout =
                           IF thBarrier.prevAccessCount > 0
                           THEN pVkBarrier.oldLayout
                           ELSE o.pVkBarrier.oldLayout
                    /\ r.pVkBarrier.newLayout =
                           IF thBarrier.nextAccessCount > 0
                           THEN pVkBarrier.newLayout
                           ELSE o.pVkBarrier.newLayout

\* the image resolver has resolved a write with no next access on preset
\* stage words and a record that was not initialised: the access masks and
\* oldLayout are resolved, the preset stage bits and the old newLayout remain
C7_Witness ==
    /\ returned /\ shape = "image"
    /\ thBarrier.pPrevAccesses = <<THSVS_ACCESS_COLOR_ATTACHMENT_WRITE>>
    /\ thBarrier.nextAccessCount = 0
    /\ thBarrier.prevLayout = THSVS_IMAGE_LAYOUT_OPTIMAL
    /\ thBarrier.discardContents = VK_FALSE
    /\ entry = [pSrcStages |-> VK_PIPELINE_STAGE_TOP_OF_PIPE_BIT,
                pDstStages |-> VK_PIPELINE_STAGE_BOTTOM_OF_PIPE_BIT,
                pVkBarrier |-> VkImageMemoryBarrier(7)]
    /\ pVkBarrier.srcAccessMask = VK_ACCESS_COLOR_ATTACHMENT_WRITE_BIT
    /\ pVkBarrier.dstAccessMask = 0
    /\ pSrcStages = VK_PIPELINE_STAGE_TOP_OF_PIPE_BIT
                    + VK_PIPELINE_STAGE_COLOR_ATTACHMENT_OUTPUT_BIT
    /\ pDstStages = VK_PIPELINE_STAGE_BOTTOM_OF_PIPE_BIT
    /\ pVkBarrier.oldLayout = VK_IMAGE_LAYOUT_COLOR_ATTACHMENT_OPTIMAL
    /\ pVkBarrier.newLayout = entry.pVkBarrier.newLayout

\* C8 as claimed: a resolver given no previous access returns srcStageMask = 0
\* and srcAccessMask = 0, given no next access it returns dstStageMask = 0 and
\* dstAccessMask = 0, and every stage bit of its result is a bit of the
\* registry stage mask of a listed access
C8_EmptyListsGiveZeroMasks ==
    returned =>
        /\ thBarrier.prevAccessCount = 0 =>
               /\ pSrcStages = 0
               /\ pVkBarrier.srcAccessMask = 0
        /\ thBarrier.nextAccessCount = 0 =>
               /\ pDstStages = 0
               /\ pVkBarrier.dstAccessMask = 0
        /\ Bits(pSrcStages) \subseteq StageBitsOf(thBarrier.pPrevAccesses)
        /\ Bits(pDstStages) \subseteq StageBitsOf(thBarrier.pNextAccesses)

\* C8 as amended: a resolver given no previous access leaves *pSrcStages as
\* the caller handed it over (0 stays 0) and returns srcAccessMask = 0, given
\* no next access it leaves *pDstStages as it was and returns
\* dstAccessMask = 0; and every stage bit of its result was set in the
\* caller's word on entry or is a bit of the registry stage mask of a listed
\* access, so the resolver adds no default stage of its own and
\* THSVS_ACCESS_NONE alone leaves a zero word zero
C8_NoDefaultStages ==
    returned =>
        /\ thBarrier.prevAccessCount = 0 =>
               /\ pSrcStages = entry.pSrcStages
               /\ pVkBarrier.srcAccessMask = 0
        /\ thBarrier.nextAccessCount = 0 =>
               /\ pDstStages = entry.pDstStages
               /\ pVkBarrier.dstAccessMask = 0
        /\ Bits(pSrcStages) \subseteq
               Bits(entry.pSrcStages) \cup StageBitsOf(thBarrier.pPrevAccesses)
        /\ Bits(pDstStages) \subseteq
               Bits(entry.pDstStages) \cup StageBitsOf(thBarrier.pNextAccesses)
        /\ (ZeroStages /\ thBarrier.pPrevAccesses = <<THSVS_ACCESS_NONE>>)
               => pSrcStages = 0

\* the global resolver has resolved a barrier with no previous access on
\* stage words the caller had preset to TOP_OF_PIPE and BOTTOM_OF_PIPE: the
\* source word still holds TOP_OF_PIPE alone, srcAccessMask is 0 although the
\* record held other bits, and the destination word has gained the stage of
\* the next access
C8_Witness ==
    /\ returned /\ shape = "global"
    /\ thBarrier.prevAccessCount = 0
    /\ thBarrier.pNextAccesses = <<THSVS_ACCESS_INDEX_BUFFER>>
    /\ entry.pSrcStages = VK_PIPELINE_STAGE_TOP_OF_PIPE_BIT
    /\ entry.pDstStages = VK_PIPELINE_STAGE_BOTTOM_OF_PIPE_BIT
    /\ entry.pVkBarrier.srcAccessMask # 0
    /\ pSrcStages = VK_PIPELINE_STAGE_TOP_OF_PIPE_BIT
    /\ pVkBarrier.srcAccessMask = 0
    /\ pDstStages = VK_PIPELINE_STAGE_BOTTOM_OF_PIPE_BIT
                    + VK_PIPELINE_STAGE_VERTEX_INPUT_BIT

\* C9: a side of an image barrier that lists a single access resolves, when
\* the contents are not discarded, to the layout of the mode table: the
\* registry layout under OPTIMAL, GENERAL or (for PRESENT) PRESENT_SRC_KHR
\* under GENERAL, SHARED_PRESENT_KHR under GENERAL_AND_PRESENTATION; the same
\* for oldLayout with prevLayout and for newLayout with nextLayout
C9_SingleAccessLayoutFollowsModeTable ==
    (returned /\ shape = "image" /\ thBarrier.discardContents = VK_FALSE) =>
        /\ thBarrier.prevAccessCount = 1 =>
               pVkBarrier.oldLayout =
                   ModeTableLayout(thBarrier.prevLayout, thBarrier.pPrevAccesses[1])
        /\ thBarrier.nextAccessCount = 1 =>
               pVkBarrier.newLayout =
                   ModeTableLayout(thBarrier.nextLayout, thBarrier.pNextAccesses[1])
        /\ ( /\ thBarrier.prevLayout = THSVS_IMAGE_LAYOUT_OPTIMAL
             /\ thBarrier.pPrevAccesses = <<THSVS_ACCESS_COLOR_ATTACHMENT_WRITE>> )
           => pVkBarrier.oldLayout = VK_IMAGE_LAYOUT_COLOR_ATTACHMENT_OPTIMAL
        /\ ( /\ thBarrier.nextLayout = THSVS_IMAGE_LAYOUT_OPTIMAL
             /\ thBarrier.pNextAccesses =
                    <<THSVS_ACCESS_FRAGMENT_SHADER_READ_SAMPLED_IMAGE_OR_UNIFORM_TEXEL_BUFFER>> )
           => pVkBarrier.newLayout = VK_IMAGE_LAYOUT_SHADER_READ_ONLY_OPTIMAL
        /\ ( /\ thBarrier.nextLayout = THSVS_IMAGE_LAYOUT_GENERAL
             /\ thBarrier.pNextAccesses = <<THSVS_ACCESS_PRESENT>> )
           => pVkBarrier.newLayout = VK_IMAGE_LAYOUT_PRESENT_SRC_KHR
        /\ ( /\ thBarrier.prevLayout = THSVS_IMAGE_LAYOUT_GENERAL
             /\ thBarrier.pPrevAccesses = <<THSVS_ACCESS_COLOR_ATTACHMENT_WRITE>> )
           => pVkBarrier.oldLayout = VK_IMAGE_LAYOUT_GENERAL
        /\ ( /\ thBarrier.prevLayout = THSVS_IMAGE_LAYOUT_GENERAL_AND_PRESENTATION
             /\ thBarrier.pPrevAccesses = <<THSVS_ACCESS_PRESENT>> )
           => pVkBarrier.oldLayout = VK_IMAGE_LAYOUT_SHARED_PRESENT_KHR

\* the image resolver has resolved the colour-write to sampled-read barrier
\* of the test program under OPTIMAL on a record that held other layouts
C9_Witness ==
    /\ returned /\ shape = "image"
    /\ thBarrier.discardContents = VK_FALSE
    /\ thBarrier.prevLayout = THSVS_IMAGE_LAYOUT_OPTIMAL
    /\ thBarrier.nextLayout = THSVS_IMAGE_LAYOUT_OPTIMAL
    /\ thBarrier.pPrevAccesses = <<THSVS_ACCESS_COLOR_ATTACHMENT_WRITE>>
    /\ thBarrier.pNextAccesses =
           <<THSVS_ACCESS_FRAGMENT_SHADER_READ_SAMPLED_IMAGE_OR_UNIFORM_TEXEL_BUFFER>>
    /\ entry.pVkBarrier.oldLayout = 7
    /\ pVkBarrier.oldLayout = VK_IMAGE_LAYOUT_COLOR_ATTACHMENT_OPTIMAL
    /\ pVkBarrier.newLayout = VK_IMAGE_LAYOUT_SHADER_READ_ONLY_OPTIMAL

\* C10: whenever discardContents is set the image resolver returns oldLayout
\* = VK_IMAGE_LAYOUT_UNDEFINED, whatever prevLayout, however many previous
\* accesses are listed and whatever the record held before the call, and
\* newLayout is the layout the next accesses have under nextLayout
C10_DiscardGivesUndefinedOldLayout ==
    (returned /\ shape = "image" /\ thBarrier.discardContents = VK_TRUE) =>
        /\ pVkBarrier.oldLayout = VK_IMAGE_LAYOUT_UNDEFINED
        /\ ( /\ thBarrier.nextAccessCount > 0
             /\ OneLayout(thBarrier.nextLayout, thBarrier.pNextAccesses) )
           => pVkBarrier.newLayout =
                  ModeTableLayout(thBarrier.nextLayout, thBarrier.pNextAccesses[1])

\* C11: an image barrier that keeps the contents and lists accesses on both
\* sides has oldLayout = newLayout when both modes are
\* GENERAL_AND_PRESENTATION, whatever the accesses, and has oldLayout =
\* newLayout = VK_IMAGE_LAYOUT_GENERAL when both modes are GENERAL and
\* THSVS_ACCESS_PRESENT is on neither side
C11_GeneralModesKeepTheLayout ==
    ( /\ returned /\ shape = "image"
      /\ thBarrier.discardContents = VK_FALSE
      /\ thBarrier.prevAccessCount > 0
      /\ thBarrier.nextAccessCount > 0 ) =>
        /\ ( /\ thBarrier.prevLayout = THSVS_IMAGE_LAYOUT_GENERAL_AND_PRESENTATION
             /\ thBarrier.nextLayout = THSVS_IMAGE_LAYOUT_GENERAL_AND_PRESENTATION )
           => pVkBarrier.oldLayout = pVkBarrier.newLayout
        /\ ( /\ thBarrier.prevLayout = THSVS_IMAGE_LAYOUT_GENERAL
             /\ thBarrier.nextLayout = THSVS_IMAGE_LAYOUT_GENERAL
             /\ THSVS_ACCESS_PRESENT \notin Range(thBarrier.pPrevAccesses)
             /\ THSVS_ACCESS_PRESENT \notin Range(thBarrier.pNextAccesses) )
           => /\ pVkBarrier.oldLayout = VK_IMAGE_LAYOUT_GENERAL
              /\ pVkBarrier.newLayout = VK_IMAGE_LAYOUT_GENERAL

\* the image resolver has resolved a colour write followed by a present under
\* GENERAL_AND_PRESENTATION on a record that held other layouts, and both
\* layouts are the shared presentable one
C11_Witness ==
    /\ returned /\ shape = "image"
    /\ thBarrier.discardContents = VK_FALSE
    /\ thBarrier.prevLayout = THSVS_IMAGE_LAYOUT_GENERAL_AND_PRESENTATION
    /\ thBarrier.nextLayout = THSVS_IMAGE_LAYOUT_GENERAL_AND_PRESENTATION
    /\ thBarrier.pPrevAccesses = <<THSVS_ACCESS_COLOR_ATTACHMENT_WRITE>>
    /\ thBarrier.pNextAccesses = <<THSVS_ACCESS_PRESENT>>
    /\ entry.pVkBarrier.oldLayout = 7
    /\ pVkBarrier.oldLayout = VK_IMAGE_LAYOUT_SHARED_PRESENT_KHR
    /\ pVkBarrier.newLayout = VK_IMAGE_LAYOUT_SHARED_PRESENT_KHR

\* the record of a returned buffer or image call holds the queue family
\* indices, the handle and the range of the description
OpaqueFieldsCopied ==
    /\ shape = "buffer" =>
        /\ pVkBarrier.srcQueueFamilyIndex = thBarrier.srcQueueFamilyIndex
        /\ pVkBarrier.dstQueueFamilyIndex = thBarrier.dstQueueFamilyIndex
        /\ pVkBarrier.buffer = thBarrier.buffer
        /\ pVkBarrier.offset = thBarrier.offset
        /\ pVkBarrier.size = thBarrier.size
    /\ shape = "image" =>
        /\ pVkBarrier.srcQueueFamilyIndex = thBarrier.srcQueueFamilyIndex
        /\ pVkBarrier.dstQueueFamilyIndex = thBarrier.dstQueueFamilyIndex
        /\ pVkBarrier.image = thBarrier.image
        /\ pVkBarrier.subresourceRange = thBarrier.subresourceRange

\* C12: after every call the buffer record holds exactly the
\* srcQueueFamilyIndex, dstQueueFamilyIndex, buffer, offset and size of the
\* description and the image record exactly its srcQueueFamilyIndex,
\* dstQueueFamilyIndex, image and subresourceRange, whatever the access
\* lists; and no call changes the description or its access lists
C12_OpaqueFieldsPassedThrough ==
    /\ [](returned => OpaqueFieldsCopied)
    /\ [][thBarrier' = thBarrier]_vars

\* the buffer resolver has resolved a write listed with a read into a record
\* that was not initialised, and the record holds the fields of the
\* description
C12_Witness ==
    /\ returned /\ shape = "buffer"
    /\ thBarrier.pPrevAccesses =
           <<THSVS_ACCESS_INDEX_BUFFER, THSVS_ACCESS_COLOR_ATTACHMENT_WRITE>>
    /\ entry.pVkBarrier = VkBufferMemoryBarrier(7)
    /\ thBarrier.dstQueueFamilyIndex = 1
    /\ pVkBarrier.srcQueueFamilyIndex = 0
    /\ pVkBarrier.dstQueueFamilyIndex = 1
    /\ pVkBarrier.buffer = 5
    /\ pVkBarrier.offset = 16
    /\ pVkBarrier.size = 64

\* the global barrier that lists the accesses of the description of the state
GlobalBarrierOf(b) ==
    [prevAccessCount |-> b.prevAccessCount, pPrevAccesses |-> b.pPrevAccesses,
     nextAccessCount |-> b.nextAccessCount, pNextAccesses |-> b.pNextAccesses]

\* C13: a buffer or image call returns the two stage masks and the two access
\* masks that the global resolver returns for the same access lists and the
\* same stage words on entry, whatever the queue family indices, handles,
\* layout modes and discardContents of the description
C13_ThreeResolversOneAlgorithm ==
    (returned /\ shape \in {"buffer", "image"}) =>
        \A r \in {VkMemoryBarrier(0), VkMemoryBarrier(7)} :
            Masks(thsvsGetVulkanMemoryBarrier(
                      GlobalBarrierOf(thBarrier),
                      [pSrcStages |-> entry.pSrcStages,
                       pDstStages |-> entry.pDstStages,
                       pVkBarrier |-> r]))
                = Masks(Out)

\* the image resolver, discarding the contents, has resolved a read listed
\* with a write followed by a present, and the masks are those of a global
\* barrier
C13_Witness ==
    /\ returned /\ ZeroStages /\ shape = "image"
    /\ thBarrier.discardContents = VK_TRUE
    /\ thBarrier.pPrevAccesses =
           <<THSVS_ACCESS_INDEX_BUFFER, THSVS_ACCESS_COLOR_ATTACHMENT_WRITE>>
    /\ thBarrier.pNextAccesses = <<THSVS_ACCESS_PRESENT>>
    /\ Masks(Out) = << VK_PIPELINE_STAGE_VERTEX_INPUT_BIT
                           + VK_PIPELINE_STAGE_COLOR_ATTACHMENT_OUTPUT_BIT,
                       VK_PIPELINE_STAGE_TOP_OF_PIPE_BIT,
                       VK_ACCESS_COLOR_ATTACHMENT_WRITE_BIT,
                       0 >>

\* C14: a call into storage that holds the result of an earlier call with the
\* same description leaves the stage words and every field of the record as
\* they were; and the full barrier, previous and next access
\* THSVS_ACCESS_GENERAL, resolved into stage words that were zero or hold an
\* earlier result, gives ALL_COMMANDS twice and MEMORY_READ | MEMORY_WRITE
\* twice, the first time and every time after
C14_ResolutionIdempotent ==
    /\ [][returned => /\ pSrcStages' = pSrcStages
                      /\ pDstStages' = pDstStages
                      /\ pVkBarrier' = pVkBarrier]_vars
    /\ []( ( /\ returned
             /\ thBarrier.pPrevAccesses = <<THSVS_ACCESS_GENERAL>>
             /\ thBarrier.pNextAccesses = <<THSVS_ACCESS_GENERAL>>
             /\ entry.pSrcStages \in {0, VK_PIPELINE_STAGE_ALL_COMMANDS_BIT}
             /\ entry.pDstStages \in {0, VK_PIPELINE_STAGE_ALL_COMMANDS_BIT} )
           => Masks(Out) =
                  << VK_PIPELINE_STAGE_ALL_COMMANDS_BIT,
                     VK_PIPELINE_STAGE_ALL_COMMANDS_BIT,
                     VK_ACCESS_TYPE_MEMORY_READ_BIT + VK_ACCESS_TYPE_MEMORY_WRITE_BIT,
                     VK_ACCESS_TYPE_MEMORY_READ_BIT + VK_ACCESS_TYPE_MEMORY_WRITE_BIT >> )

\* the global resolver has resolved the full barrier of the test program a
\* second time, into the storage that held the first result
C14_Witness ==
    /\ returned /\ shape = "global"
    /\ thBarrier.pPrevAccesses = <<THSVS_ACCESS_GENERAL>>
    /\ thBarrier.pNextAccesses = <<THSVS_ACCESS_GENERAL>>
    /\ entry = Out
    /\ pSrcStages = VK_PIPELINE_STAGE_ALL_COMMANDS_BIT
    /\ pDstStages = VK_PIPELINE_STAGE_ALL_COMMANDS_BIT
    /\ pVkBarrier.srcAccessMask =
           VK_ACCESS_TYPE_MEMORY_READ_BIT + VK_ACCESS_TYPE_MEMORY_WRITE_BIT
    /\ pVkBarrier.dstAccessMask =
           VK_ACCESS_TYPE_MEMORY_READ_BIT + VK_ACCESS_TYPE_MEMORY_WRITE_BIT

\* C15: THSVS_ACCESS_PRESENT as the only next access, resolved into zero stage
\* words, gives *pDstStages = BOTTOM_OF_PIPE and dstAccessMask = 0 and, for an
\* image under OPTIMAL, newLayout = PRESENT_SRC_KHR; after a colour attachment
\* write the source side is COLOR_ATTACHMENT_OUTPUT and
\* COLOR_ATTACHMENT_WRITE_BIT
C15_PresentResolvesToBottomOfPipe ==
    ( /\ returned /\ ZeroStages
      /\ thBarrier.pNextAccesses = <<THSVS_ACCESS_PRESENT>> ) =>
        /\ pDstStages = VK_PIPELINE_STAGE_BOTTOM_OF_PIPE_BIT
        /\ pVkBarrier.dstAccessMask = 0
        /\ (shape = "image" /\ thBarrier.nextLayout = THSVS_IMAGE_LAYOUT_OPTIMAL)
               => pVkBarrier.newLayout = VK_IMAGE_LAYOUT_PRESENT_SRC_KHR
        /\ thBarrier.pPrevAccesses = <<THSVS_ACCESS_COLOR_ATTACHMENT_WRITE>>
               => /\ pSrcStages = VK_PIPELINE_STAGE_COLOR_ATTACHMENT_OUTPUT_BIT
                  /\ pVkBarrier.srcAccessMask = VK_ACCESS_COLOR_ATTACHMENT_WRITE_BIT

\* C16: THSVS_ACCESS_FRAGMENT_SHADER_READ_DEPTH_STENCIL_INPUT_ATTACHMENT as
\* the only next access, resolved into zero stage words, gives *pDstStages =
\* FRAGMENT_SHADER and dstAccessMask = INPUT_ATTACHMENT_READ_BIT, the access
\* mask of the colour input attachment read, and for an image under OPTIMAL
\* newLayout = DEPTH_STENCIL_READ_ONLY_OPTIMAL
C16_DepthStencilInputAttachmentRead ==
    ( /\ returned /\ ZeroStages
      /\ thBarrier.pNextAccesses =
             <<THSVS_ACCESS_FRAGMENT_SHADER_READ_DEPTH_STENCIL_INPUT_ATTACHMENT>> ) =>
        /\ pDstStages = VK_PIPELINE_STAGE_FRAGMENT_SHADER_BIT
        /\ pVkBarrier.dstAccessMask = VK_ACCESS_INPUT_ATTACHMENT_READ_BIT
        /\ pVkBarrier.dstAccessMask =
               ThsvsAccessMap[THSVS_ACCESS_FRAGMENT_SHADER_READ_COLOR_INPUT_ATTACHMENT + 1].accessMask
        /\ (shape = "image" /\ thBarrier.nextLayout = THSVS_IMAGE_LAYOUT_OPTIMAL)
               => pVkBarrier.newLayout = VK_IMAGE_LAYOUT_DEPTH_STENCIL_READ_ONLY_OPTIMAL

\* the result is an execution dependency without a memory dependency: both
\* stage masks are set and both access masks are 0
ExecutionOnly ==
    /\ pSrcStages # 0
    /\ pDstStages # 0
    /\ pVkBarrier.srcAccessMask = 0
    /\ pVkBarrier.dstAccessMask = 0

\* C17: execution-only dependencies cannot be expressed: no access lists
\* make a resolver, called with zero stage words, return a non-zero
\* srcStageMask and a non-zero dstStageMask together with srcAccessMask = 0
\* and dstAccessMask = 0
C17_NoExecutionOnlyDependency ==
    (returned /\ ZeroStages) => ~ExecutionOnly

(***************************************************************************)
(* The optional error checks.                                              *)
(***************************************************************************)

\* a list the hazard check rejects: more than one entry, one of them of the
\* write or general class
HazardList(list) ==
    Len(list) > 1 /\ \E a \in Range(list) : a > THSVS_ACCESS_PRESENT

\* C18: compiled with THSVS_ERROR_CHECK_POTENTIAL_HAZARD, a call of any of
\* the three resolvers ends at an assert if and only if pPrevAccesses or
\* pNextAccesses has more than one entry and holds an entry above
\* THSVS_ACCESS_PRESENT, wherever in the list; lists of read-class entries
\* and single-entry lists let the call return
C18_PotentialHazardHalts ==
    ( /\ defined = {"THSVS_ERROR_CHECK_POTENTIAL_HAZARD"}
      /\ returned \/ halted ) =>
        ( halted <=> \/ HazardList(thBarrier.pPrevAccesses)
                     \/ HazardList(thBarrier.pNextAccesses) )

\* a buffer barrier whose write stands last in a list of two has ended the
\* process
C18_Witness ==
    /\ defined = {"THSVS_ERROR_CHECK_POTENTIAL_HAZARD"}
    /\ halted
    /\ shape = "buffer"
    /\ thBarrier.pPrevAccesses =
           <<THSVS_ACCESS_INDEX_BUFFER, THSVS_ACCESS_COLOR_ATTACHMENT_WRITE>>

\* the barrier names one queue family on both sides
SameQueueFamily ==
    thBarrier.srcQueueFamilyIndex = thBarrier.dstQueueFamilyIndex

\* C19 as claimed: compiled with THSVS_ERROR_CHECK_COULD_USE_GLOBAL_BARRIER,
\* a buffer barrier ends at an assert exactly when srcQueueFamilyIndex =
\* dstQueueFamilyIndex, and an image barrier exactly when srcQueueFamilyIndex
\* = dstQueueFamilyIndex and the resolved oldLayout = newLayout; a barrier
\* that needs a queue family transfer or a layout change returns
C19_RedundantBarrierHalts ==
    ( /\ defined = {"THSVS_ERROR_CHECK_COULD_USE_GLOBAL_BARRIER"}
      /\ returned \/ halted ) =>
        /\ shape = "buffer" => (halted <=> SameQueueFamily)
        /\ shape = "image" =>
             LET layouts == Layouts(Resolve("image", thBarrier, entry))
             IN  halted <=> (SameQueueFamily /\ layouts[1] = layouts[2])

\* the previous side of the barrier lists accesses of different layouts
\* (with discardContents no layout is resolved for them)
MixedPrevLayouts ==
    /\ thBarrier.discardContents # VK_TRUE
    /\ ~OneLayout(thBarrier.prevLayout, thBarrier.pPrevAccesses)

MixedNextLayouts ==
    ~OneLayout(thBarrier.nextLayout, thBarrier.pNextAccesses)

\* C20 as claimed: compiled with THSVS_ERROR_CHECK_MIXED_IMAGE_LAYOUT, a call
\* of thsvsGetVulkanImageMemoryBarrier ends at an assert whenever one side
\* lists two accesses that resolve to different layouts under that side's
\* layout mode, VK_IMAGE_LAYOUT_UNDEFINED being a layout like any other,
\* whatever the order of the entries
C20_MixedLayoutsHalt ==
    ( /\ defined = {"THSVS_ERROR_CHECK_MIXED_IMAGE_LAYOUT"}
      /\ shape = "image"
      /\ returned \/ halted ) =>
        ( (MixedPrevLayouts \/ MixedNextLayouts) => halted )

(***************************************************************************)
(* Calls from several threads.                                             *)
(***************************************************************************)

\* the storage thread t passed, as it is now
ThreadOut(t) == threads.memory[threads.calls[t].p]

\* C21: under every interleaving of the steps of resolver calls made by
\* different threads, each with its own description and its own output
\* storage, a call that has returned left in its storage what the same call
\* leaves when it runs alone, and a step of one thread changes nothing of
\* another thread's call or storage: the resolvers keep no state of their own
C21_ConcurrentCallsIndependent ==
    /\ [](\A t \in Threads :
            threads.calls[t].pc = "returned" =>
              ThreadOut(t) = Resolve(threads.calls[t].shape,
                                     threads.calls[t].thBarrier,
                                     threads.calls[t].entry))
    /\ [][\A t \in Threads :
            threads'.calls[t] = threads.calls[t] =>
              threads'.memory[threads.calls[t].p] = ThreadOut(t)]_vars

\* both threads have returned, the one from the image resolver and the other
\* from the global one, from calls with several accesses that do not leave
\* the same masks
C21_Witness ==
    /\ \A t \in Threads : threads.calls[t].pc = "returned"
    /\ threads.calls[1].thBarrier.prevAccessCount = 2
    /\ threads.calls[2].thBarrier.nextAccessCount = 2
    /\ threads.calls[1].shape = "image"
    /\ threads.calls[2].shape = "global"
    /\ Masks(ThreadOut(1)) # Masks(ThreadOut(2))

(***************************************************************************)
(* The enumeration and the registry.                                       *)
(***************************************************************************)

\* A faulty enumeration: THSVS_ACCESS_PRESENT is not declared among the reads
ReadAccessSection_WithoutPresent ==
    {
      THSVS_ACCESS_COMMAND_BUFFER_READ_NVX,
      THSVS_ACCESS_INDIRECT_BUFFER,
      THSVS_ACCESS_INDEX_BUFFER,
      THSVS_ACCESS_VERTEX_BUFFER,
      THSVS_ACCESS_VERTEX_SHADER_READ_UNIFORM_BUFFER,
      THSVS_ACCESS_VERTEX_SHADER_READ_SAMPLED_IMAGE_OR_UNIFORM_TEXEL_BUFFER,
      THSVS_ACCESS_VERTEX_SHADER_READ_OTHER,
      THSVS_ACCESS_TESSELLATION_CONTROL_SHADER_READ_UNIFORM_BUFFER,
      THSVS_ACCESS_TESSELLATION_CONTROL_SHADER_READ_SAMPLED_IMAGE_OR_UNIFORM_TEXEL_BUFFER,
      THSVS_ACCESS_TESSELLATION_CONTROL_SHADER_READ_OTHER,
      THSVS_ACCESS_TESSELLATION_EVALUATION_SHADER_READ_UNIFORM_BUFFER,
      THSVS_ACCESS_TESSELLATION_EVALUATION_SHADER_READ_SAMPLED_IMAGE_OR_UNIFORM_TEXEL_BUFFER,
      THSVS_ACCESS_TESSELLATION_EVALUATION_SHADER_READ_OTHER,
      THSVS_ACCESS_GEOMETRY_SHADER_READ_UNIFORM_BUFFER,
      THSVS_ACCESS_GEOMETRY_SHADER_READ_SAMPLED_IMAGE_OR_UNIFORM_TEXEL_BUFFER,
      THSVS_ACCESS_GEOMETRY_SHADER_READ_OTHER,
      THSVS_ACCESS_FRAGMENT_SHADER_READ_UNIFORM_BUFFER,
      THSVS_ACCESS_FRAGMENT_SHADER_READ_SAMPLED_IMAGE_OR_UNIFORM_TEXEL_BUFFER,
      THSVS_ACCESS_FRAGMENT_SHADER_READ_COLOR_INPUT_ATTACHMENT,
      THSVS_ACCESS_FRAGMENT_SHADER_READ_DEPTH_STENCIL_INPUT_ATTACHMENT,
      THSVS_ACCESS_FRAGMENT_SHADER_READ_OTHER,
      THSVS_ACCESS_COLOR_ATTACHMENT_READ,
      THSVS_ACCESS_DEPTH_STENCIL_ATTACHMENT_READ,
      THSVS_ACCESS_COMPUTE_SHADER_READ_UNIFORM_BUFFER,
      THSVS_ACCESS_COMPUTE_SHADER_READ_SAMPLED_IMAGE_OR_UNIFORM_TEXEL_BUFFER,
      THSVS_ACCESS_COMPUTE_SHADER_READ_OTHER,
      THSVS_ACCESS_ANY_SHADER_READ_UNIFORM_BUFFER,
      THSVS_ACCESS_ANY_SHADER_READ_UNIFORM_BUFFER_OR_VERTEX_BUFFER,
      THSVS_ACCESS_ANY_SHADER_READ_SAMPLED_IMAGE_OR_UNIFORM_TEXEL_BUFFER,
      THSVS_ACCESS_ANY_SHADER_READ_OTHER,
      THSVS_ACCESS_TRANSFER_READ,
      THSVS_ACCESS_HOST_READ }

\* the enumerators ThsvsAccessType declares under "Read access"
ReadAccessSection ==
    {
      THSVS_ACCESS_COMMAND_BUFFER_READ_NVX,
      THSVS_ACCESS_INDIRECT_BUFFER,
      THSVS_ACCESS_INDEX_BUFFER,
      THSVS_ACCESS_VERTEX_BUFFER,
      THSVS_ACCESS_VERTEX_SHADER_READ_UNIFORM_BUFFER,
      THSVS_ACCESS_VERTEX_SHADER_READ_SAMPLED_IMAGE_OR_UNIFORM_TEXEL_BUFFER,
      THSVS_ACCESS_VERTEX_SHADER_READ_OTHER,
      THSVS_ACCESS_TESSELLATION_CONTROL_SHADER_READ_UNIFORM_BUFFER,
      THSVS_ACCESS_TESSELLATION_CONTROL_SHADER_READ_SAMPLED_IMAGE_OR_UNIFORM_TEXEL_BUFFER,
      THSVS_ACCESS_TESSELLATION_CONTROL_SHADER_READ_OTHER,
      THSVS_ACCESS_TESSELLATION_EVALUATION_SHADER_READ_UNIFORM_BUFFER,
      THSVS_ACCESS_TESSELLATION_EVALUATION_SHADER_READ_SAMPLED_IMAGE_OR_UNIFORM_TEXEL_BUFFER,
      THSVS_ACCESS_TESSELLATION_EVALUATION_SHADER_READ_OTHER,
      THSVS_ACCESS_GEOMETRY_SHADER_READ_UNIFORM_BUFFER,
      THSVS_ACCESS_GEOMETRY_SHADER_READ_SAMPLED_IMAGE_OR_UNIFORM_TEXEL_BUFFER,
      THSVS_ACCESS_GEOMETRY_SHADER_READ_OTHER,
      THSVS_ACCESS_FRAGMENT_SHADER_READ_UNIFORM_BUFFER,
      THSVS_ACCESS_FRAGMENT_SHADER_READ_SAMPLED_IMAGE_OR_UNIFORM_TEXEL_BUFFER,
      THSVS_ACCESS_FRAGMENT_SHADER_READ_COLOR_INPUT_ATTACHMENT,
      THSVS_ACCESS_FRAGMENT_SHADER_READ_DEPTH_STENCIL_INPUT_ATTACHMENT,
      THSVS_ACCESS_FRAGMENT_SHADER_READ_OTHER,
      THSVS_ACCESS_COLOR_ATTACHMENT_READ,
      THSVS_ACCESS_DEPTH_STENCIL_ATTACHMENT_READ,
      THSVS_ACCESS_COMPUTE_SHADER_READ_UNIFORM_BUFFER,
      THSVS_ACCESS_COMPUTE_SHADER_READ_SAMPLED_IMAGE_OR_UNIFORM_TEXEL_BUFFER,
      THSVS_ACCESS_COMPUTE_SHADER_READ_OTHER,
      THSVS_ACCESS_ANY_SHADER_READ_UNIFORM_BUFFER,
      THSVS_ACCESS_ANY_SHADER_READ_UNIFORM_BUFFER_OR_VERTEX_BUFFER,
      THSVS_ACCESS_ANY_SHADER_READ_SAMPLED_IMAGE_OR_UNIFORM_TEXEL_BUFFER,
      THSVS_ACCESS_ANY_SHADER_READ_OTHER,
      THSVS_ACCESS_TRANSFER_READ,
      THSVS_ACCESS_HOST_READ,
      THSVS_ACCESS_PRESENT }

\* the enumerators ThsvsAccessType declares under "Write access"
WriteAccessSection ==
    {
      THSVS_ACCESS_COMMAND_BUFFER_WRITE_NVX,
      THSVS_ACCESS_VERTEX_SHADER_WRITE,
      THSVS_ACCESS_TESSELLATION_CONTROL_SHADER_WRITE,
      THSVS_ACCESS_TESSELLATION_EVALUATION_SHADER_WRITE,
      THSVS_ACCESS_GEOMETRY_SHADER_WRITE,
      THSVS_ACCESS_FRAGMENT_SHADER_WRITE,
      THSVS_ACCESS_COLOR_ATTACHMENT_WRITE,
      THSVS_ACCESS_DEPTH_STENCIL_ATTACHMENT_WRITE,
      THSVS_ACCESS_DEPTH_ATTACHMENT_WRITE_STENCIL_READ_ONLY,
      THSVS_ACCESS_STENCIL_ATTACHMENT_WRITE_DEPTH_READ_ONLY,
      THSVS_ACCESS_COMPUTE_SHADER_WRITE,
      THSVS_ACCESS_ANY_SHADER_WRITE,
      THSVS_ACCESS_TRANSFER_WRITE,
      THSVS_ACCESS_HOST_WRITE,
      THSVS_ACCESS_COLOR_ATTACHMENT_READ_WRITE }

\* ThsvsAccessMap[access] is an element of the array
LookupInBounds(access) == access + 1 \in 1 .. Len(ThsvsAccessMap)

\* C22: ThsvsAccessMap has exactly THSVS_NUM_ACCESS_TYPES entries, one for
\* each ordinal from THSVS_ACCESS_NONE to THSVS_ACCESS_GENERAL, so the lookup
\* of every access a wrapper was handed is in bounds; and the enumeration
\* keeps three contiguous ranges: THSVS_ACCESS_NONE and the reads up to
\* THSVS_ACCESS_PRESENT, then the writes, then THSVS_ACCESS_GENERAL last
C22_RegistryAlignedWithEnumeration ==
    /\ Len(ThsvsAccessMap) = THSVS_NUM_ACCESS_TYPES
    /\ AccessTypes = THSVS_ACCESS_NONE .. THSVS_ACCESS_GENERAL
    /\ \A a \in AccessTypes : LookupInBounds(a)
    /\ ~LookupInBounds(THSVS_NUM_ACCESS_TYPES)
    /\ THSVS_ACCESS_NONE = 0
    /\ ReadAccessSection = 1 .. THSVS_ACCESS_PRESENT
    /\ WriteAccessSection = (THSVS_ACCESS_PRESENT + 1) .. (THSVS_ACCESS_GENERAL - 1)
    /\ THSVS_ACCESS_GENERAL = THSVS_NUM_ACCESS_TYPES - 1
    /\ call.returned =>
          \A a \in Range(call.pPrevAccesses) : LookupInBounds(a)

\* a wrapper has looked up the last entry of the registry
C22_Witness ==
    /\ call.returned
    /\ call.pPrevAccesses = <<THSVS_ACCESS_GENERAL>>
    /\ Bits(commands[1].stageMask) =
           Bits(ThsvsAccessMap[THSVS_NUM_ACCESS_TYPES].stageMask)
               \cup Bits(VK_PIPELINE_STAGE_TOP_OF_PIPE_BIT)

(***************************************************************************)
(* The event wrappers.                                                     *)
(***************************************************************************)

\* the Vulkan command an event wrapper stands for
EventCommandOf(function) ==
    IF function = "thsvsCmdSetEvent" THEN "vkCmdSetEvent" ELSE "vkCmdResetEvent"

\* C23: thsvsCmdSetEvent and thsvsCmdResetEvent each issue exactly one
\* vkCmdSetEvent / vkCmdResetEvent, with commandBuffer and event as passed
\* and, as its only other argument, a stage mask that is TOP_OF_PIPE OR'd
\* with the registry stage mask of every listed previous access, reads and
\* writes alike; with prevAccessCount = 0 the stage mask is TOP_OF_PIPE
C23_EventWrappersIssueOneCommand ==
    call.returned =>
        /\ Len(commands) = 1
        /\ DOMAIN commands[1] = {"command", "commandBuffer", "event", "stageMask"}
        /\ commands[1].command = EventCommandOf(call.function)
        /\ commands[1].commandBuffer = call.commandBuffer
        /\ commands[1].event = call.event
        /\ Bits(commands[1].stageMask) =
               Bits(VK_PIPELINE_STAGE_TOP_OF_PIPE_BIT)
                   \cup StageBitsOf(call.pPrevAccesses)
        /\ call.prevAccessCount = 0 =>
               commands[1].stageMask = VK_PIPELINE_STAGE_TOP_OF_PIPE_BIT

\* thsvsCmdSetEvent has returned from a call that lists a read before a write
C23_Witness ==
    /\ call.returned
    /\ call.function = "thsvsCmdSetEvent"
    /\ call.pPrevAccesses =
           <<THSVS_ACCESS_INDEX_BUFFER, THSVS_ACCESS_COLOR_ATTACHMENT_WRITE>>
    /\ Len(commands) = 1

(***************************************************************************)
(* The batch wrappers.                                                     *)
(***************************************************************************)

\* the command the last wrapper call issued, and the part of the log that
\* call wrote
LastCommand == commands[Len(commands)]

LastLog == SelectSeq(scratch, LAMBDA e : e.n = Len(commands))

\* the stage bits of the previous accesses of every barrier of a batch
BatchPrevStageBits(args) ==
    UNION ( { StageBitsOf(b.pPrevAccesses) : b \in Range(args.pGlobalBarrier) }
       \cup { StageBitsOf(b.pPrevAccesses) : b \in Range(args.pBufferBarriers) }
       \cup { StageBitsOf(b.pPrevAccesses) : b \in Range(args.pImageBarriers) } )

\* the stage bits of the next accesses of every barrier of a batch
BatchNextStageBits(args) ==
    UNION ( { StageBitsOf(b.pNextAccesses) : b \in Range(args.pGlobalBarrier) }
       \cup { StageBitsOf(b.pNextAccesses) : b \in Range(args.pBufferBarriers) }
       \cup { StageBitsOf(b.pNextAccesses) : b \in Range(args.pImageBarriers) } )

\* the Vulkan command a batch wrapper stands for
BatchCommandOf(function) ==
    IF function = "thsvsCmdPipelineBarrier"
    THEN "vkCmdPipelineBarrier" ELSE "vkCmdWaitEvents"

\* C24: thsvsCmdPipelineBarrier and thsvsCmdWaitEvents issue exactly one
\* underlying command for the whole batch, after every barrier of the batch
\* has been resolved; its srcStageMask is TOP_OF_PIPE OR'd with the stage
\* masks of every previous access of the batch and its dstStageMask is
\* BOTTOM_OF_PIPE OR'd with those of every next access, so they are exactly
\* TOP_OF_PIPE and BOTTOM_OF_PIPE when no barrier lists an access; it carries
\* one memory barrier iff pGlobalBarrier is not NULL, and bufferBarrierCount
\* and imageBarrierCount native records in the order of the input
C24_BatchIsOneCommand ==
    /\ [][ /\ Len(commands') = Len(commands) + 1
           /\ SubSeq(commands', 1, Len(commands)) = commands ]_vars
    /\ [](commands # << >> =>
           LET c == LastCommand
               b == LastCommand.barriers
               issue == { k \in 1 .. Len(LastLog) : LastLog[k].op = c.command }
               resolves == { k \in 1 .. Len(LastLog) : LastLog[k].op = "resolve" }
           IN  /\ c.command = BatchCommandOf(call.function)
               /\ c.commandBuffer = call.commandBuffer
               /\ Cardinality(issue) = 1
               /\ Cardinality(resolves) =
                      b.memoryBarrierCount + call.bufferBarrierCount
                          + call.imageBarrierCount
               /\ \A k \in resolves : \A j \in issue : k < j
               /\ Bits(b.srcStageMask) =
                      Bits(VK_PIPELINE_STAGE_TOP_OF_PIPE_BIT)
                          \cup BatchPrevStageBits(call)
               /\ Bits(b.dstStageMask) =
                      Bits(VK_PIPELINE_STAGE_BOTTOM_OF_PIPE_BIT)
                          \cup BatchNextStageBits(call)
               /\ (BatchPrevStageBits(call) \cup BatchNextStageBits(call) = {}) =>
                      /\ b.srcStageMask = VK_PIPELINE_STAGE_TOP_OF_PIPE_BIT
                      /\ b.dstStageMask = VK_PIPELINE_STAGE_BOTTOM_OF_PIPE_BIT
               /\ b.memoryBarrierCount = 1 <=> call.pGlobalBarrier # << >>
               /\ b.memoryBarrierCount \in {0, 1}
               /\ Len(b.pMemoryBarriers) = b.memoryBarrierCount
               /\ b.bufferMemoryBarrierCount = call.bufferBarrierCount
               /\ Len(b.pBufferMemoryBarriers) = call.bufferBarrierCount
               /\ \A k \in 1 .. call.bufferBarrierCount :
                      b.pBufferMemoryBarriers[k].buffer = call.pBufferBarriers[k].buffer
               /\ b.imageMemoryBarrierCount = call.imageBarrierCount
               /\ Len(b.pImageMemoryBarriers) = call.imageBarrierCount
               /\ \A k \in 1 .. call.imageBarrierCount :
                      b.pImageMemoryBarriers[k].image = call.pImageBarriers[k].image)

\* thsvsCmdWaitEvents has returned, as the second wrapper called, from a
\* batch of a global barrier, two buffer barriers and two image barriers
C24_Witness ==
    /\ Len(commands) = 2
    /\ call.function = "thsvsCmdWaitEvents"
    /\ call.pGlobalBarrier # << >>
    /\ call.bufferBarrierCount = 2
    /\ call.imageBarrierCount = 2
    /\ call.pImageBarriers[1].image = 9
    /\ LastCommand.barriers.pImageMemoryBarriers[1].image = 9

\* the places of the log of call n where the array at pointer p is
\* obtained, handed to temp_free, read by a Vulkan command, or written by a
\* resolver
AllocationsOf(n, p) ==
    { k \in 1 .. Len(scratch[n]) :
        scratch[n][k].op = "temp_alloc" /\ scratch[n][k].p = p }

FreesOf(n, p) ==
    { k \in 1 .. Len(scratch[n]) :
        scratch[n][k].op = "temp_free" /\ scratch[n][k].p = p }

CommandReadsOf(n, p) ==
    { k \in 1 .. Len(scratch[n]) :
        /\ scratch[n][k].op \in {"vkCmdPipelineBarrier", "vkCmdWaitEvents"}
        /\ p \in scratch[n][k].p }

ResolverWritesOf(n, p) ==
    { k \in 1 .. Len(scratch[n]) :
        scratch[n][k].op = "resolve" /\ scratch[n][k].p = p }

\* the temp_alloc entries of the log of call n, and the pointers temp_alloc
\* returned to it
ScratchAllocations(n) ==
    { scratch[n][k] : k \in { j \in 1 .. Len(scratch[n]) :
                                scratch[n][j].op = "temp_alloc" } }

ScratchArrays(n) == { e.p : e \in ScratchAllocations(n) }

\* the bytes of the arrays call n has obtained
ScratchBytes(n) == UNION { Region(e.p, e.size) : e \in ScratchAllocations(n) }

\* the threads that are in a wrapper, and whether call n is still in progress
ThreadsInWrapper == { t \in Threads : threads.calls[t].pc # "idle" }

InProgress(n) == \E t \in ThreadsInWrapper : threads.calls[t].callNo = n

\* the arrays a call should obtain: one for each kind of barrier it has
ScratchArraysNeeded(args) ==
    (IF args.bufferBarrierCount > 0 THEN 1 ELSE 0)
        + (IF args.imageBarrierCount > 0 THEN 1 ELSE 0)

MasksWithin(o, q) ==
    \A k \in 1 .. 4 : Bits(Masks(o)[k]) \subseteq Bits(Masks(q)[k])

\* the description b with access a added at the end of its previous accesses
WithPrevAccess(b, a) ==
    [b EXCEPT !.prevAccessCount = @ + 1, !.pPrevAccesses = Append(@, a)]

\* the description b with access a added at the end of its next accesses
WithNextAccess(b, a) ==
    [b EXCEPT !.nextAccessCount = @ + 1, !.pNextAccesses = Append(@, a)]

\* C26: a step of a resolver call never clears a bit of *pSrcStages or
\* *pDstStages, and after the step that zeroes the two access masks no step
\* clears a bit of srcAccessMask or dstAccessMask; so on return the stage
\* masks hold every bit they held on entry, and the same call with one more
\* access at the end of either list returns masks that hold every bit the
\* call returned
C26_MasksOnlyGainBits ==
    /\ [][\A t \in Threads :
            LET before == ThreadOut(t)
                after  == threads'.memory[threads.calls[t].p]
            IN  /\ Bits(before.pSrcStages) \subseteq Bits(after.pSrcStages)
                /\ Bits(before.pDstStages) \subseteq Bits(after.pDstStages)
                /\ threads.calls[t].pc # "call" => MasksWithin(before, after)]_vars
    /\ [](\A t \in Threads :
            LET c == threads.calls[t]
            IN  c.pc = "returned" =>
                  /\ Bits(c.entry.pSrcStages) \subseteq Bits(ThreadOut(t).pSrcStages)
                  /\ Bits(c.entry.pDstStages) \subseteq Bits(ThreadOut(t).pDstStages)
                  /\ \A a \in AccessSample :
                        /\ MasksWithin(ThreadOut(t),
                                       Resolve(c.shape, WithPrevAccess(c.thBarrier, a),
                                               c.entry))
                        /\ MasksWithin(ThreadOut(t),
                                       Resolve(c.shape, WithNextAccess(c.thBarrier, a),
                                               c.entry)))

\* a call of the image resolver is in its loop over pNextAccesses, one entry
\* done and one to go, on storage whose stage words were set on entry and
\* whose access masks both hold bits that the steps so far have put there
C26_Witness ==
    \E t \in Threads :
        /\ threads.calls[t].shape = "image"
        /\ threads.calls[t].pc = "next"
        /\ threads.calls[t].i = 1
        /\ threads.calls[t].thBarrier.nextAccessCount = 2
        /\ threads.calls[t].entry.pSrcStages # 0
        /\ ThreadOut(t).pVkBarrier.srcAccessMask # 0
        /\ ThreadOut(t).pVkBarrier.dstAccessMask # 0
        /\ ThreadOut(t).pVkBarrier.srcAccessMask # threads.calls[t].entry.pVkBarrier.srcAccessMask

(***************************************************************************)
(* The layouts of an image barrier whose entries disagree.                 *)
(***************************************************************************)

\* a list cut down to its last entry
LastOnly(accesses) ==
    IF Len(accesses) = 0 THEN << >> ELSE <<accesses[Len(accesses)]>>

\* the description b with pPrevAccesses and pNextAccesses cut down to their
\* last entries
LastEntriesOf(b) ==
    [b EXCEPT !.prevAccessCount = Len(LastOnly(b.pPrevAccesses)),
              !.pPrevAccesses   = LastOnly(b.pPrevAccesses),
              !.nextAccessCount = Len(LastOnly(b.pNextAccesses)),
              !.pNextAccesses   = LastOnly(b.pNextAccesses)]

\* C27: without error checks the image resolver returns from every call,
\* lists whose entries have different layouts included; with discardContents
\* false oldLayout is the layout the layout options give the last entry of
\* pPrevAccesses, newLayout is the layout they give the last entry of
\* pNextAccesses, and both layouts are those of the call whose lists are cut
\* down to their last entries
C27_LastEntryDecidesLayout ==
    /\ ~halted
    /\ (returned /\ shape = "image") =>
        /\ (thBarrier.prevAccessCount > 0 /\ thBarrier.discardContents = VK_FALSE) =>
              pVkBarrier.oldLayout =
                  ModeTableLayout(thBarrier.prevLayout,
                                  thBarrier.pPrevAccesses[thBarrier.prevAccessCount])
        /\ thBarrier.nextAccessCount > 0 =>
              pVkBarrier.newLayout =
                  ModeTableLayout(thBarrier.nextLayout,
                                  thBarrier.pNextAccesses[thBarrier.nextAccessCount])
        /\ Layouts(Out) =
              Layouts(Resolve("image", LastEntriesOf(thBarrier), entry))

\* the image resolver has returned from a call whose previous accesses have
\* different optimal layouts, nothing discarded: oldLayout is the layout of
\* the last entry and not that of the first
C27_Witness ==
    /\ returned /\ shape = "image" /\ ~halted
    /\ thBarrier.discardContents = VK_FALSE
    /\ thBarrier.prevLayout = THSVS_IMAGE_LAYOUT_OPTIMAL
    /\ thBarrier.prevAccessCount = 2
    /\ ~OneLayout(thBarrier.prevLayout, thBarrier.pPrevAccesses)
    /\ pVkBarrier.oldLayout = ThsvsAccessMap[thBarrier.pPrevAccesses[2] + 1].imageLayout
    /\ pVkBarrier.oldLayout # ThsvsAccessMap[thBarrier.pPrevAccesses[1] + 1].imageLayout
    /\ pVkBarrier.oldLayout # entry.pVkBarrier.oldLayout

(***************************************************************************)
(* Availability of earlier writes.                                         *)
(***************************************************************************)

\* C28: every registry entry of a write access or of the general access has
\* a non-zero accessMask, and a resolver returns a non-zero srcAccessMask
\* exactly when pPrevAccesses lists an access above THSVS_ACCESS_PRESENT
C28_WriteAlwaysMadeAvailable ==
    /\ \A a \in AccessTypes :
          a > THSVS_ACCESS_PRESENT => ThsvsAccessMap[a + 1].accessMask # 0
    /\ returned =>
          ( pVkBarrier.srcAccessMask # 0
              <=> \E i \in 1 .. thBarrier.prevAccessCount :
                      thBarrier.pPrevAccesses[i] > THSVS_ACCESS_PRESENT )

\* the global resolver has returned from a call that lists a read before a
\* write, on a record that was not initialised: srcAccessMask holds the bits
\* of the write and none of the read
C28_Witness ==
    /\ returned /\ shape = "global"
    /\ thBarrier.pPrevAccesses =
           <<THSVS_ACCESS_INDEX_BUFFER, THSVS_ACCESS_COLOR_ATTACHMENT_WRITE>>
    /\ entry.pVkBarrier = VkMemoryBarrier(7)
    /\ pVkBarrier.srcAccessMask # 0
    /\ Bits(pVkBarrier.srcAccessMask) \cap Bits(VK_ACCESS_INDEX_READ_BIT) = {}

(***************************************************************************)
(* What the layout options and discardContents reach.                      *)
(***************************************************************************)

\* the fields of a VkImageMemoryBarrier that are neither masks nor layouts
PassedThrough(o) ==
    <<o.pVkBarrier.sType, o.pVkBarrier.pNext,
      o.pVkBarrier.srcQueueFamilyIndex, o.pVkBarrier.dstQueueFamilyIndex,
      o.pVkBarrier.image, o.pVkBarrier.subresourceRange>>

\* the description b with other layout options and another discardContents
WithLayoutOptions(b, pl, nl, d) ==
    [b EXCEPT !.prevLayout = pl, !.nextLayout = nl, !.discardContents = d]

\* C29: the call of the image resolver with prevLayout, nextLayout and
\* discardContents changed in any way, on the same storage, returns the same
\* two stage masks, the same two access masks and the same sType, pNext,
\* queue family indices, image and subresourceRange; it returns the same
\* newLayout when nextLayout is not changed, whatever prevLayout and
\* discardContents are, and the same oldLayout when prevLayout and
\* discardContents are not changed, whatever nextLayout is
C29_LayoutOptionsReachLayoutsOnly ==
    (returned /\ shape = "image") =>
        \A pl \in ImageLayouts, nl \in ImageLayouts, d \in {VK_FALSE, VK_TRUE} :
            LET r == Resolve("image", WithLayoutOptions(thBarrier, pl, nl, d), entry)
            IN  /\ Masks(r) = Masks(Out)
                /\ PassedThrough(r) = PassedThrough(Out)
                /\ nl = thBarrier.nextLayout =>
                      r.pVkBarrier.newLayout = pVkBarrier.newLayout
                /\ (pl = thBarrier.prevLayout /\ d = thBarrier.discardContents) =>
                      r.pVkBarrier.oldLayout = pVkBarrier.oldLayout

\* the image resolver has returned from a call with accesses on both sides
\* for which each of the three inputs matters: with discardContents set, or
\* with another prevLayout, the call returns another oldLayout, and with
\* another nextLayout another newLayout
C29_Witness ==
    /\ returned /\ shape = "image"
    /\ thBarrier.prevAccessCount > 0 /\ thBarrier.nextAccessCount > 0
    /\ thBarrier.discardContents = VK_FALSE
    /\ pVkBarrier.srcAccessMask # 0 /\ pVkBarrier.dstAccessMask # 0
    /\ Resolve("image", WithLayoutOptions(thBarrier, thBarrier.prevLayout,
                                          thBarrier.nextLayout, VK_TRUE),
               entry).pVkBarrier.oldLayout # pVkBarrier.oldLayout
    /\ \E pl \in ImageLayouts :
          Resolve("image", WithLayoutOptions(thBarrier, pl, thBarrier.nextLayout,
                                             VK_FALSE),
                  entry).pVkBarrier.oldLayout # pVkBarrier.oldLayout
    /\ \E nl \in ImageLayouts :
          Resolve("image", WithLayoutOptions(thBarrier, thBarrier.prevLayout, nl,
                                             VK_FALSE),
                  entry).pVkBarrier.newLayout # pVkBarrier.newLayout

(***************************************************************************)
(* The mixed-layout check and what the record held before the call.        *)
(***************************************************************************)

\* C30 as claimed: compiled with THSVS_ERROR_CHECK_MIXED_IMAGE_LAYOUT, a call
\* of thsvsGetVulkanImageMemoryBarrier whose previous accesses have one layout
\* (or are discarded) and whose next accesses have one layout returns,
\* whatever the record held before the call: zeroes, the values nobody
\* initialised of a scratch record, or the results of an earlier call
C30_ConsistentLayoutsNeverHalt ==
    ( /\ defined = {"THSVS_ERROR_CHECK_MIXED_IMAGE_LAYOUT"}
      /\ shape = "image"
      /\ returned \/ halted
      /\ ~MixedPrevLayouts
      /\ ~MixedNextLayouts ) =>
        ~halted

====
